---- MODULE Spec2Model ----
(***************************************************************************)
(* Model of the quiz generation pipeline (ai_pipeline.py), of its question *)
(* normalizer and validator, and of the job queue of the desktop front end *)
(* (gui.py).                                                               *)
(*                                                                         *)
(* Text is a sequence of one-character strings, so that lower(), strip(),  *)
(* str() and list membership are computed and not assumed.  A JSON value   *)
(* is a record [t, s, n]: t is the JSON kind, s the text of a string,      *)
(* n the value of a number or boolean.                                     *)
(***************************************************************************)
EXTENDS Integers, Sequences, FiniteSets, TLC

VARIABLES
    \* --- one run of generate_questions_simple ---
    pc,            \* position in the run
    num_questions, \* argument num_questions
    difficulty,    \* argument difficulty (text)
    question_type_counts, \* argument question_type_counts (type -> count)
    attempt,       \* generate_full_quiz: attempt
    genResp,       \* kind of the generator's last answer to generate_full_quiz
    quiz,          \* the parsed quiz: [settings, questions]
    generated,     \* the questions as generate_full_quiz returned them
    targeted,      \* targeted_indices
    ti,            \* position of the for loop in targeted_indices (1-based)
    refAttempt,    \* attempt of the refinement loop of the current index
    feedback,      \* feedback of the refinement loop
    result,        \* how the call ended: "pending", "none", "quiz", "raised"
    calls,         \* critic and refine calls so far: the number of batch
                   \* critiques, whether a detailed critique was asked
                   \* for, whether a refinement was asked for, whether the
                   \* detailed critique of a generated question answered
                   \* anything but an approval
    exhausted,     \* positions whose refinement loop ended without a break
    \* --- one call of normalize_question ---
    n_pc, n_q, n_allowed, n_gui, n_out,
    n_again,       \* result of normalizing the returned question once more
    \* --- the job queue of QuizGeneratorGUI ---
    task_queue,     \* self.task_queue (task ids)
    current_thread, \* self.current_thread (thread id, 0 for None)
    threads,        \* GenerationThreads whose run() has not returned
    signals,        \* emitted signals not yet delivered to the GUI thread
    nextTask,       \* tasks created so far
    nextThread,     \* threads created so far
    queueStatus,    \* text of queueStatusLabel
    crashed,        \* an exception escaped a slot of the GUI
    \* --- one call of deduplicate_questions, critique_questions or
    \*     batch_critique ---
    h_pc,           \* "call" before the call, "returned" after it
    h_fn,           \* the function called
    h_questions,    \* argument questions
    h_resp,         \* the parsed answer of the critic
    h_difficulty,   \* the difficulty the caller of the pipeline asked for
    h_out,          \* what the call returned
    \* --- one call of run_ollama, extract_json, analyze_question_difficulty
    \*     or refine_question ---
    f_pc,           \* "call" before the call, "returned" after it
    f_fn,           \* the function called
    f_arg,          \* its arguments and what the outside world answers
    f_out           \* how the call ended

pipeVars == <<pc, num_questions, difficulty, question_type_counts, attempt, genResp, quiz, generated,
              targeted, ti, refAttempt, feedback, result, calls, exhausted>>
normVars == <<n_pc, n_q, n_allowed, n_gui, n_out, n_again>>
guiVars == <<task_queue, current_thread, threads, signals, nextTask, nextThread,
              queueStatus, crashed>>
callVars == <<h_pc, h_fn, h_questions, h_resp, h_difficulty, h_out>>
fnVars == <<f_pc, f_fn, f_arg, f_out>>
vars == <<pipeVars, normVars, guiVars, callVars, fnVars>>

----------------------------------------------------------------------------
(* Text *)

UpperChars == <<"A","B","C","D","E","F","G","H","I","J","K","L","M",
                "N","O","P","Q","R","S","T","U","V","W","X","Y","Z">>
LowerChars == <<"a","b","c","d","e","f","g","h","i","j","k","l","m",
                "n","o","p","q","r","s","t","u","v","w","x","y","z">>
DigitChars == <<"0","1","2","3","4","5","6","7","8","9">>

\* str.lower() on one character
LowerChar(c) ==
    IF \E i \in 1..26 : UpperChars[i] = c
    THEN LowerChars[CHOOSE i \in 1..26 : UpperChars[i] = c]
    ELSE c

\* str.lower()
Lower(s) == [i \in 1..Len(s) |-> LowerChar(s[i])]

IsSpace(c) == c \in {" ", "\t", "\n", "\r"}

RECURSIVE LStrip(_)
LStrip(s) == IF s # <<>> /\ IsSpace(Head(s)) THEN LStrip(Tail(s)) ELSE s

RECURSIVE RStrip(_)
RStrip(s) ==
    IF s # <<>> /\ IsSpace(s[Len(s)]) THEN RStrip(SubSeq(s, 1, Len(s) - 1)) ELSE s

\* str.strip()
Strip(s) == RStrip(LStrip(s))

IsDigit(c) == \E i \in 1..10 : DigitChars[i] = c
DigitVal(c) == (CHOOSE i \in 1..10 : DigitChars[i] = c) - 1

\* str(n) for an integer n
RECURSIVE NatStr(_)
NatStr(n) == IF n < 10 THEN <<DigitChars[n + 1]>>
             ELSE NatStr(n \div 10) \o <<DigitChars[(n % 10) + 1]>>
IntStr(n) == IF n < 0 THEN <<"-">> \o NatStr(0 - n) ELSE NatStr(n)

\* pat occurs in s at position i
MatchAt(s, pat, i) ==
    /\ i + Len(pat) - 1 <= Len(s)
    /\ \A k \in 1..Len(pat) : s[i + k - 1] = pat[k]

\* pat in s
Contains(s, pat) == \E i \in 1..(Len(s) + 1) : MatchAt(s, pat, i)

\* s.count(pat): occurrences that do not overlap, found left to right
RECURSIVE CountFrom(_, _, _)
CountFrom(s, pat, i) ==
    IF i + Len(pat) - 1 > Len(s) THEN 0
    ELSE IF MatchAt(s, pat, i) THEN 1 + CountFrom(s, pat, i + Len(pat))
    ELSE CountFrom(s, pat, i + 1)
Count(s, pat) == CountFrom(s, pat, 1)

Max(a, b) == IF a >= b THEN a ELSE b
Min(a, b) == IF a <= b THEN a ELSE b

L_multiple_choice == <<"m", "u", "l", "t", "i", "p", "l", "e", "_", "c", "h", "o", "i", "c", "e">>
L_multiple_dash_choice == <<"m", "u", "l", "t", "i", "p", "l", "e", "-", "c", "h", "o", "i", "c", "e">>
L_mcq == <<"m", "c", "q">>
L_true_slash_false == <<"t", "r", "u", "e", "/", "f", "a", "l", "s", "e">>
L_true_false == <<"t", "r", "u", "e", "_", "f", "a", "l", "s", "e">>
L_tf == <<"t", "f">>
L_short == <<"s", "h", "o", "r", "t">>
L_short_answer == <<"s", "h", "o", "r", "t", " ", "a", "n", "s", "w", "e", "r">>
L_sa == <<"s", "a">>
L_fill == <<"f", "i", "l", "l">>
L_fill_in_the_blank == <<"f", "i", "l", "l", "-", "i", "n", "-", "t", "h", "e", "-", "b", "l", "a", "n", "k">>
L_fib == <<"f", "i", "b">>
L_num == <<"n", "u", "m">>
L_numerical == <<"n", "u", "m", "e", "r", "i", "c", "a", "l">>
L_numeric == <<"n", "u", "m", "e", "r", "i", "c">>
L_calculation == <<"c", "a", "l", "c", "u", "l", "a", "t", "i", "o", "n">>
T_MCQ == <<"M", "C", "Q">>
T_TrueFalse == <<"T", "r", "u", "e", "/", "F", "a", "l", "s", "e">>
T_ShortAnswer == <<"S", "h", "o", "r", "t", " ", "A", "n", "s", "w", "e", "r">>
T_FillInTheBlank == <<"F", "i", "l", "l", "-", "i", "n", "-", "t", "h", "e", "-", "B", "l", "a", "n", "k">>
T_Numerical == <<"N", "u", "m", "e", "r", "i", "c", "a", "l">>
S_Correct == <<"C", "o", "r", "r", "e", "c", "t">>
S_Wrong == <<"W", "r", "o", "n", "g">>
S_true == <<"t", "r", "u", "e">>
S_t == <<"t">>
S_correct == <<"c", "o", "r", "r", "e", "c", "t">>
S_None == <<"N", "o", "n", "e">>
S_True == <<"T", "r", "u", "e">>
S_False == <<"F", "a", "l", "s", "e">>
S_Option == <<"O", "p", "t", "i", "o", "n", " ">>
S_Easy == <<"E", "a", "s", "y">>
S_Medium == <<"M", "e", "d", "i", "u", "m">>
S_Hard == <<"H", "a", "r", "d">>
S_and == <<" ", "a", "n", "d", " ">>
S_average == <<"a", "v", "e", "r", "a", "g", "e">>
S_total == <<"t", "o", "t", "a", "l">>
S_difference == <<"d", "i", "f", "f", "e", "r", "e", "n", "c", "e">>
S_sum == <<"s", "u", "m">>
S_product == <<"p", "r", "o", "d", "u", "c", "t">>
S_divide == <<"d", "i", "v", "i", "d", "e">>
S_multiply == <<"m", "u", "l", "t", "i", "p", "l", "y">>
X_what_is_2_plus_2 == <<"2", " ", "+", " ", "2", "?">>
X_is_3_odd == <<"I", "s", " ", "3", " ", "o", "d", "d", "?">>
X_sum_text == <<"S", "u", "m", " ", "o", "f", " ", "1", "5", "0", ",", " ", "2", "0", " ", "a", "n", "d", " ", "3">>
X_name_a_prime == <<"N", "a", "m", "e", " ", "a", " ", "p", "r", "i", "m", "e">>
X_true_padded == <<" ", "T", "R", "U", "E", " ">>
X_TRUE == <<"T", "R", "U", "E">>
X_T == <<"T">>
X_yes == <<"y", "e", "s">>
X_false == <<"f", "a", "l", "s", "e">>
X_tr_ue == <<"t", "r", " ", "u", "e">>
X_173 == <<"1", "7", "3">>
X_essay == <<"e", "s", "s", "a", "y">>
X_upper_mcq == <<"M", "C", "Q">>
X_Multiple_Choice == <<"M", "u", "l", "t", "i", "p", "l", "e", "_", "C", "h", "o", "i", "c", "e">>
X_TF == <<"T", "F">>
X_Fill == <<"F", "I", "L", "L">>
X_Calculation == <<"C", "a", "l", "c", "u", "l", "a", "t", "i", "o", "n">>
----------------------------------------------------------------------------
(* JSON values as Python sees them *)

Txt(s) == [t |-> "str",    s |-> s,    n |-> 0]
Num(k) == [t |-> "int",    s |-> <<>>, n |-> k]
Bool(b) == [t |-> "bool",   s |-> <<>>, n |-> IF b THEN 1 ELSE 0]
Null == [t |-> "null",   s |-> <<>>, n |-> 0]
Absent == [t |-> "absent", s |-> <<>>, n |-> 0]   \* the key is not in the dict

\* dict.get(key): an absent key reads as None
Get(v) == IF v = Absent THEN Null ELSE v
\* dict.get(key, default)
GetOr(v, d) == IF v = Absent THEN d ELSE v

\* a == b in Python (True == 1, False == 0)
PyEq(a, b) ==
    IF a.t \in {"int", "bool"} /\ b.t \in {"int", "bool"} THEN a.n = b.n ELSE a = b

\* bool(v)
Truthy(v) ==
    CASE v.t = "str" -> v.s # <<>>
      [] v.t \in {"int", "bool"} -> v.n # 0
      [] OTHER -> FALSE

\* str(v)
PyStr(v) ==
    CASE v.t = "str" -> v.s
      [] v.t = "int" -> IntStr(v.n)
      [] v.t = "bool" -> IF v.n = 1 THEN S_True ELSE S_False
      [] OTHER -> S_None

\* v in lst, for a list of values
InList(v, lst) == \E i \in 1..Len(lst) : PyEq(lst[i], v)

\* the "options" entry of a question dict
NoOptions == [t |-> "absent", items |-> <<>>]
NullOptions == [t |-> "null",   items |-> <<>>]
Options(xs) == [t |-> "list",   items |-> xs]

\* an entry of the "questions" list that is not a dict (a string, a number)
NotADict ==
    [isdict |-> FALSE, id |-> 0, question |-> Absent, type |-> Absent,
     options |-> NoOptions, answer |-> Absent, difficulty |-> Absent]

\* a question dict; id is the position at which the generator produced it
\* (not a key of the dict: it only lets the order of the output be stated)
Question(text, type, options, answer, diff) ==
    [isdict |-> TRUE, id |-> 0, question |-> text, type |-> type,
     options |-> options, answer |-> answer, difficulty |-> diff]

----------------------------------------------------------------------------
(* is_valid_question *)

ValidMCQLabels == {L_mcq, L_multiple_choice, L_multiple_dash_choice}
ValidTFLabels == {L_true_slash_false, L_true_false, L_tf}

\* (q.get("type") or "").lower() raises AttributeError for a truthy non-string
IsValidRaises(q) ==
    /\ q.isdict
    /\ Truthy(Get(q.question))
    /\ Truthy(Get(q.type))
    /\ q.type.t # "str"

\* qtype of is_valid_question
ValidQType(q) == IF Truthy(Get(q.type)) THEN Lower(q.type.s) ELSE <<>>

is_valid_question(q) ==
    IF ~q.isdict THEN FALSE
    ELSE IF ~Truthy(Get(q.question)) THEN FALSE
    ELSE IF ValidQType(q) \in ValidMCQLabels
         THEN /\ q.options.t = "list"
              /\ Len(q.options.items) >= 2
              /\ q.answer # Absent
              /\ ~PyEq(q.answer, Txt(<<>>))
    ELSE IF ValidQType(q) \in ValidTFLabels
         THEN /\ q.answer # Absent
              /\ InList(q.answer, <<Txt(S_Correct), Txt(S_Wrong)>>)
    ELSE /\ q.answer # Absent
         /\ ~PyEq(q.answer, Txt(<<>>))

----------------------------------------------------------------------------
(* analyze_question_difficulty *)

\* first position at or after i that holds no digit
RECURSIVE DigitsEnd(_, _)
DigitsEnd(s, i) == IF i <= Len(s) /\ IsDigit(s[i]) THEN DigitsEnd(s, i + 1) ELSE i

\* value of the digits s[i..j-1]
RECURSIVE DigitsVal(_, _, _)
DigitsVal(s, i, j) ==
    IF i >= j THEN 0 ELSE DigitsVal(s, i, j - 1) * 10 + DigitVal(s[j - 1])

\* re.findall(r'\d+\.?\d*', s): the matches, each by its integer part (the
\* classification compares with 20, 100 and 1000 only, and x < K for an
\* integer K exactly when floor(x) < K)
RECURSIVE NumsFrom(_, _)
NumsFrom(s, i) ==
    IF i > Len(s) THEN {}
    ELSE IF IsDigit(s[i])
         THEN LET j == DigitsEnd(s, i)
                  k == IF j <= Len(s) /\ s[j] = "." THEN DigitsEnd(s, j + 1) ELSE j
              IN  {DigitsVal(s, i, j)} \cup NumsFrom(s, k)
    ELSE NumsFrom(s, i + 1)

SetMax(S) == IF S = {} THEN 0 ELSE CHOOSE x \in S : \A y \in S : y <= x

ArithmeticCues ==
    {<<"+">>, <<"-">>, <<"*">>, <<"/">>, S_average, S_total, S_difference,
     S_sum, S_product, S_divide, S_multiply}

\* question.get("question", "") + " " raises TypeError unless the text is a string
DifficultyRaises(q) == q.question # Absent /\ q.question.t # "str"

DifficultyText(q) ==
    Lower(GetOr(q.question, Txt(<<>>)).s \o <<" ">>
          \o PyStr(GetOr(q.answer, Txt(<<>>))))

DifficultySteps(text) ==
    IF \E op \in ArithmeticCues : Contains(text, op)
    THEN 1 + Count(text, S_and) + Count(text, <<",">>)
    ELSE 1

EasyMax == 20
MediumMax == 100
HardMax == 1000

ClassifyLargeHard(max_num, steps) ==
    IF max_num < EasyMax /\ steps <= 1 THEN S_Easy
    ELSE IF max_num < MediumMax /\ steps <= 2 THEN S_Medium
    ELSE IF steps > 2 THEN S_Hard
    ELSE S_Medium

Classify(max_num, steps) ==
    IF max_num < EasyMax /\ steps <= 1 THEN S_Easy
    ELSE IF max_num < MediumMax /\ steps <= 2 THEN S_Medium
    ELSE IF max_num < HardMax /\ steps > 2 THEN S_Hard
    ELSE S_Medium

analyze_question_difficulty(q) ==
    LET text == DifficultyText(q)
    IN  Classify(SetMax(NumsFrom(text, 1)), DifficultySteps(text))

----------------------------------------------------------------------------
(* normalize_question *)

CanonicalTypes ==
    {T_MCQ, T_TrueFalse, T_ShortAnswer, T_FillInTheBlank, T_Numerical}

\* q.get("type", "").lower() raises AttributeError unless the type is a string
TypeRaises(q) == q.type # Absent /\ q.type.t # "str"

\* a q_type that would keep the case of the label (for comparison)
RawTypeNoLower(q) == GetOr(q.type, Txt(<<>>)).s

\* q_type: the lower-cased label
RawType(q) == Lower(GetOr(q.type, Txt(<<>>)).s)

\* the if/elif chain over q_type
ResolveType(q_type) ==
    IF q_type \in {L_multiple_choice, L_multiple_dash_choice, L_mcq} THEN T_MCQ
    ELSE IF q_type \in {L_true_slash_false, L_true_false, L_tf} THEN T_TrueFalse
    ELSE IF q_type \in {L_short, L_short_answer, L_sa} THEN T_ShortAnswer
    ELSE IF q_type \in {L_fill, L_fill_in_the_blank, L_fib} THEN T_FillInTheBlank
    ELSE IF q_type \in {L_num, L_numerical, L_numeric} THEN T_Numerical
    ELSE T_ShortAnswer

\* allowed_types and q["type"] not in allowed_types
\* (allowed_types is a set of values; None and [] are the empty set)
TypeRejected(type, allowed) == allowed # {} /\ Txt(type) \notin allowed

\* [str(o) for o in opts]
StrAll(opts) == [i \in 1..Len(opts) |-> PyStr(opts[i])]

\* while len(opts) < 4: opts.append(f"Option {len(opts)+1}")
RECURSIVE PadOptions(_)
PadOptions(opts) ==
    IF Len(opts) < 4
    THEN PadOptions(Append(opts, S_Option \o IntStr(Len(opts) + 1)))
    ELSE opts

\* the MCQ branch: the new value of q["options"], as texts
NormalizeMCQOptions(options, answer) ==
    LET opts == StrAll(options)
        ans == PyStr(Get(answer))
        spliced == IF \E i \in 1..Len(opts) : opts[i] = ans THEN opts
                   ELSE IF Len(opts) >= 3 THEN SubSeq(opts, 1, 3) \o <<ans>>
                   ELSE opts \o <<ans>>
    IN  SubSeq(PadOptions(spliced), 1, 4)

\* a True/False branch that would not trim the answer (for comparison)
NormalizeTFAnswerNoStrip(answer) ==
    IF Lower(PyStr(Get(answer))) \in {S_true, S_t, S_correct}
    THEN S_Correct ELSE S_Wrong

\* the True/False branch: the new value of q["answer"]
NormalizeTFAnswer(answer) ==
    IF Lower(Strip(PyStr(Get(answer)))) \in {S_true, S_t, S_correct}
    THEN S_Correct ELSE S_Wrong

\* a difficulty branch that would always take the estimate (for comparison)
ResolveDifficultyEstimated(q, gui_difficulty) ==
    Txt(analyze_question_difficulty(q))

\* the difficulty branch: the new value of q["difficulty"]
ResolveDifficulty(q, gui_difficulty) ==
    IF Truthy(gui_difficulty) THEN gui_difficulty
    ELSE Txt(analyze_question_difficulty(q))

\* q after the type and the per-type branch
NormalizeBody(q, type) ==
    LET typed == [q EXCEPT !.type = Txt(type)]
    IN  IF type = T_MCQ
        THEN [typed EXCEPT !.options =
                 Options([i \in 1..4 |->
                     Txt(NormalizeMCQOptions(q.options.items, q.answer)[i])])]
        ELSE IF type = T_TrueFalse
        THEN [typed EXCEPT !.options = Options(<<Txt(S_Correct), Txt(S_Wrong)>>),
                           !.answer = Txt(NormalizeTFAnswer(q.answer))]
        ELSE [typed EXCEPT !.answer = Txt(PyStr(Get(q.answer)))]

NormNone == [st |-> "none",  q |-> NotADict]
NormRaise == [st |-> "raise", q |-> NotADict]

\* normalize_question(q, allowed_types, gui_difficulty): st is "ok" with the
\* normalized q, "none" for a return of None, "raise" for an exception
normalize_question(q, allowed_types, gui_difficulty) ==
    IF ~q.isdict THEN NormNone
    ELSE IF TypeRaises(q) THEN NormRaise
    ELSE LET type == ResolveType(RawType(q))
         IN  IF TypeRejected(type, allowed_types) THEN NormNone
             ELSE IF type = T_MCQ /\ q.options.t = "null" THEN NormRaise
             ELSE LET body == NormalizeBody(q, type)
                  IN  IF DifficultyRaises(body) THEN NormRaise
                      ELSE [st |-> "ok",
                            q |-> [body EXCEPT !.difficulty =
                                       ResolveDifficulty(body, gui_difficulty)]]

----------------------------------------------------------------------------
(* One call of normalize_question on an object extracted from model output *)

Letters(xs) == [i \in 1..Len(xs) |-> Txt(<<xs[i]>>)]

\* type labels a model may give: the table's labels in several spellings,
\* labels outside the table, and values that are not text
SampleTypes ==
    {Txt(L_multiple_choice), Txt(L_multiple_dash_choice), Txt(L_mcq),
     Txt(X_upper_mcq), Txt(X_Multiple_Choice),
     Txt(L_true_slash_false), Txt(L_true_false), Txt(L_tf), Txt(X_TF),
     Txt(T_TrueFalse),
     Txt(L_short), Txt(L_short_answer), Txt(L_sa), Txt(T_ShortAnswer),
     Txt(L_fill), Txt(L_fill_in_the_blank), Txt(L_fib), Txt(X_Fill),
     Txt(T_FillInTheBlank),
     Txt(L_num), Txt(L_numerical), Txt(L_numeric), Txt(T_Numerical),
     Txt(L_calculation), Txt(X_Calculation),
     Txt(X_essay), Txt(<<>>), Absent, Null, Num(1)}

SampleOptions ==
    {NoOptions, NullOptions} \cup
    {Options(Letters(SubSeq(<<"a", "b", "c", "d", "e">>, 1, k))) : k \in 0..5} \cup
    {Options(<<Num(1), Num(2), Num(3), Num(4)>>)}

SampleMCQAnswers ==
    {Absent, Null, Txt(<<>>), Txt(<<"a">>), Txt(<<"d">>), Txt(<<"e">>),
     Txt(<<"z">>), Num(2), Num(12)}

SampleTFAnswers ==
    {Absent, Null, Txt(<<>>), Txt(S_true), Txt(S_True), Txt(X_TRUE),
     Txt(X_true_padded), Txt(S_t), Txt(X_T), Txt(S_correct), Txt(S_Correct),
     Txt(X_false), Txt(S_Wrong), Txt(X_yes), Txt(X_tr_ue),
     Bool(TRUE), Bool(FALSE), Num(1)}

SampleTexts == {Txt(X_what_is_2_plus_2), Txt(X_sum_text), Txt(<<>>), Null}

SampleDifficulties == {Txt(S_Easy), Txt(S_Medium), Txt(S_Hard)}

\* the inputs of normalize_question that are explored
NormInputs ==
    \* every type label, with and without options, with and without answer
    {Question(x, ty, o, a, d) :
        x \in SampleTexts, ty \in SampleTypes,
        o \in {NoOptions, Options(Letters(<<"a", "b">>))},
        a \in {Txt(<<"a">>), Txt(S_true), Absent}, d \in {Absent, Txt(S_Hard)}}
    \cup
    \* multiple choice: every option count, every place of the answer
    {Question(Txt(X_what_is_2_plus_2), ty, o, a, Absent) :
        ty \in {Txt(L_mcq), Txt(X_upper_mcq)},
        o \in SampleOptions, a \in SampleMCQAnswers}
    \cup
    \* true/false: every spelling of the answer
    {Question(Txt(X_is_3_odd), ty, NoOptions, a, Txt(S_Medium)) :
        ty \in {Txt(L_tf), Txt(T_TrueFalse)}, a \in SampleTFAnswers}
    \cup {NotADict}

AllTypes == {Txt(ty) : ty \in CanonicalTypes}

SampleAllowed == {{}, AllTypes, {Txt(T_MCQ)}, {Null}}

SampleGui == SampleDifficulties \cup {Null, Txt(<<>>)}

NormIdle ==
    /\ n_pc = "off" /\ n_q = NotADict /\ n_allowed = {} /\ n_gui = Null
    /\ n_out = NormNone /\ n_again = NormNone

InitNorm ==
    /\ n_pc = "call"
    /\ n_q \in NormInputs
    /\ n_allowed \in SampleAllowed
    /\ n_gui \in SampleGui
    /\ n_out = NormNone
    /\ n_again = NormNone

\* the call: q is changed in place and returned; n_q keeps the object as it
\* was passed
Normalize ==
    /\ n_pc = "call"
    /\ n_out' = normalize_question(n_q, n_allowed, n_gui)
    /\ n_pc' = "returned"
    /\ UNCHANGED <<n_q, n_allowed, n_gui, n_again>>
    /\ UNCHANGED <<pipeVars, guiVars, callVars, fnVars>>

\* a second call on the object the first call returned, with the same
\* allowed_types and gui_difficulty
Renormalize ==
    /\ n_pc = "returned"
    /\ n_out.st = "ok"
    /\ n_again' = normalize_question(n_out.q, n_allowed, n_gui)
    /\ n_pc' = "again"
    /\ UNCHANGED <<n_q, n_allowed, n_gui, n_out>>
    /\ UNCHANGED <<pipeVars, guiVars, callVars, fnVars>>

NextNorm == Normalize \/ Renormalize

----------------------------------------------------------------------------
(* One run of generate_questions_simple *)

MaxQ == 2            \* longest "questions" list the generator returns
MaxAttempts == 3     \* generate_full_quiz: max_attempts
MaxRefineAttempts == 3   \* generate_questions_simple: max_refine_attempts
SampleMin == 5       \* sample_size: max(5, ...)
SampleMax == 10      \* sample_size: min(..., 10)
SampleDivisor == 5   \* sample_size: int(max(1, n) * 0.2)

\* question objects a model may return
Q_mcq == Question(Txt(X_what_is_2_plus_2), Txt(T_MCQ),
                  Options(Letters(<<"3", "4", "5", "6">>)), Txt(<<"4">>), Txt(S_Medium))
Q_tf == Question(Txt(X_is_3_odd), Txt(L_tf), NoOptions, Txt(S_true), Absent)
Q_sa == Question(Txt(X_sum_text), Txt(T_ShortAnswer), NoOptions, Txt(X_173),
                 Txt(S_Easy))
Q_notext == Question(Txt(<<>>), Txt(T_Numerical), NoOptions, Txt(<<"7">>), Absent)
Q_noanswer == Question(Txt(X_name_a_prime), Txt(L_mcq),
                       Options(Letters(<<"2", "4">>)), Absent, Absent)
Q_nulltype == Question(Txt(X_name_a_prime), Null, NoOptions, Txt(<<"2">>), Absent)
Q_mcq2 == Question(Txt(X_name_a_prime), Txt(T_MCQ),
                   Options(Letters(<<"2", "4", "6", "8">>)), Txt(<<"2">>), Absent)

\* entries of the "questions" list of a generated quiz
GeneratedPool == {Q_mcq, Q_tf, Q_sa, Q_noanswer, NotADict}

\* the "questions" lists a generated quiz may hold
QuestionLists == UNION {[1..n -> GeneratedPool] : n \in 0..MaxQ}

\* the parsed answer of the generator to generate_full_quiz: no JSON, a JSON
\* value that is no object, an object without "questions", an object whose
\* "questions" has no length (null, a number), an empty list, a list
GenAnswers ==
    {[kind |-> k, settings |-> "absent", questions |-> <<>>] :
        k \in {"noparse", "nondict", "noquestions", "unsized"}}
    \cup
    {[kind |-> IF qs = <<>> THEN "empty" ELSE "quiz", settings |-> s,
      questions |-> qs] :
        s \in {"dict", "absent", "nondict"}, qs \in QuestionLists}

\* an acceptance test that would take any "questions" list, as the one of
\* question_generator.py does (for comparison)
GenAcceptedAnyList(resp) == resp.kind \in {"quiz", "empty"}

\* isinstance(parsed, dict) and "questions" in parsed and len(parsed["questions"]) > 0
GenAccepted(resp) == resp.kind \in {"quiz", "empty"} /\ Len(resp.questions) > 0

\* len(parsed["questions"]) raises TypeError for a value without a length
GenRaises(resp) == resp.kind = "unsized"

WithIds(qs) == [i \in 1..Len(qs) |-> [qs[i] EXCEPT !.id = i]]

NoQuiz == [settings |-> "absent", questions |-> <<>>]
NoFeedback == [approved |-> FALSE, issues |-> "none", of |-> 0]
\* candidate: whether the last refinement attempt gave a valid candidate;
\* parsed: whether some critic call gave output that parsed (no fallback)
NoCalls ==
    [batch |-> 0, critic |-> FALSE, refine |-> FALSE, unapproved |-> FALSE,
     candidate |-> "none", parsed |-> FALSE]

\* question_type_counts.get(type, 0) for every canonical type
NoTypeCounts == [ty \in CanonicalTypes |-> 0]

\* the counts a caller asks for: multiple choice only, or multiple choice and
\* true/false
SampleTypeCounts ==
    {[NoTypeCounts EXCEPT ![T_MCQ] = 1],
     [NoTypeCounts EXCEPT ![T_MCQ] = 1, ![T_TrueFalse] = 1]}

\* the num_questions the callers pass: sum(question_types.values())
NumQuestions(counts) ==
    counts[T_MCQ] + counts[T_TrueFalse] + counts[T_ShortAnswer]
        + counts[T_FillInTheBlank] + counts[T_Numerical]

\* the types the prompt of generate_full_quiz asks for:
\* question_type_counts.get(type, 0) > 0
RequestedTypes(counts) == {ty \in CanonicalTypes : counts[ty] > 0}

PipeIdle ==
    /\ pc = "off" /\ num_questions = 0 /\ difficulty = Null /\ attempt = 0
    /\ question_type_counts = NoTypeCounts
    /\ genResp = "none" /\ quiz = NoQuiz /\ generated = <<>> /\ targeted = <<>>
    /\ ti = 0 /\ refAttempt = 0 /\ feedback = NoFeedback /\ result = "pending"
    /\ calls = NoCalls /\ exhausted = {}

InitPipe ==
    /\ pc = "gen"
    /\ question_type_counts \in SampleTypeCounts
    /\ num_questions = NumQuestions(question_type_counts)
    /\ difficulty \in {Txt(S_Easy), Txt(S_Hard)}
    /\ attempt = 0
    /\ genResp = "none"
    /\ quiz = NoQuiz
    /\ generated = <<>>
    /\ targeted = <<>>
    /\ ti = 0
    /\ refAttempt = 0
    /\ feedback = NoFeedback
    /\ result = "pending"
    /\ calls = NoCalls
    /\ exhausted = {}

\* the call ends with an exception
Raise ==
    /\ pc' = "done"
    /\ result' = "raised"

\* generate_full_quiz: one pass of the while loop.  attempt is a local of
\* generate_full_quiz and is gone when it returns.
Generate ==
    /\ pc = "gen"
    /\ attempt < MaxAttempts
    /\ \E resp \in GenAnswers :
        /\ genResp' = resp.kind
        /\ IF GenRaises(resp)
           THEN /\ Raise
                /\ UNCHANGED <<attempt, quiz, generated>>
           ELSE IF GenAccepted(resp)
           THEN /\ quiz' = [settings |-> resp.settings,
                            questions |-> WithIds(resp.questions)]
                /\ generated' = WithIds(resp.questions)
                /\ pc' = "batch"
                /\ attempt' = 0
                /\ UNCHANGED result
           ELSE /\ attempt' = attempt + 1
                /\ UNCHANGED <<pc, quiz, generated, result>>
    /\ UNCHANGED <<num_questions, difficulty, question_type_counts, exhausted, targeted, ti, refAttempt, feedback, calls>>
    /\ UNCHANGED <<normVars, guiVars, callVars, fnVars>>

\* generate_full_quiz returns None after max_attempts, and
\* generate_questions_simple returns None in turn
GenerateFailed ==
    /\ pc = "gen"
    /\ attempt >= MaxAttempts
    /\ pc' = "done"
    /\ result' = "none"
    /\ UNCHANGED <<num_questions, difficulty, question_type_counts, exhausted, attempt, genResp, quiz, generated,
                   targeted, ti, refAttempt, feedback, calls>>
    /\ UNCHANGED <<normVars, guiVars, callVars, fnVars>>

\* the parsed answer of the critic to batch_critique for n questions: no
\* object with "flagged" (failed), or an object whose "flagged" is not a list,
\* or is a list of integers (0..n-1 are in range, n is not) with or without
\* an entry that is not an integer
BatchAnswers(n) ==
    {[kind |-> k, ints |-> {}, nonint |-> FALSE] : k \in {"failed", "nonlist"}}
    \cup
    {[kind |-> "list", ints |-> F, nonint |-> b] :
        F \in SUBSET (0..n), b \in BOOLEAN}

\* batch_feedback.get("flagged", []), after the fallback of batch_critique
Flagged(b) == IF b.kind = "failed" THEN [b EXCEPT !.kind = "list"] ELSE b

\* a sample size without the upper limit (for comparison)
SampleSizeUncapped(n) == Max(SampleMin, Max(1, n) \div SampleDivisor)

\* sample_size = min(max(5, int(max(1, n) * 0.2)), 10)
SampleSize(n) == Min(Max(SampleMin, Max(1, n) \div SampleDivisor), SampleMax)

\* candidates = [i for i in range(n) if i not in flagged]
Candidates(n, flagged) == {i \in 0..(n - 1) : i \notin flagged.ints}

\* sorted(list(set(...)))
RECURSIVE Sorted(_)
Sorted(S) ==
    IF S = {} THEN <<>>
    ELSE LET m == CHOOSE x \in S : \A y \in S : x <= y
         IN  <<m>> \o Sorted(S \ {m})

\* targeted_indices = sorted(list(set(flagged + random_sample)))
TargetedIndices(flagged, random_sample) == Sorted(flagged.ints \cup random_sample)

\* "i not in flagged" and "flagged + random_sample" raise TypeError when
\* flagged is no list; sorted() raises TypeError on integers mixed with text
BatchRaises(flagged) == flagged.kind # "list" \/ flagged.nonint

\* batch critique and the choice of the targeted indices
BatchCritique ==
    /\ pc = "batch"
    /\ IF quiz.settings # "dict"
       THEN \* quiz["settings"].get(...): KeyError or AttributeError, before the call
            /\ Raise
            /\ UNCHANGED <<targeted, ti, calls>>
       ELSE \E b \in BatchAnswers(Len(quiz.questions)) :
            LET n == Len(quiz.questions)
                flagged == Flagged(b)
            IN  /\ calls' = [calls EXCEPT !.batch = 1, !.parsed = b.kind # "failed"]
                /\ IF BatchRaises(flagged)
                   THEN Raise /\ UNCHANGED <<targeted, ti>>
                   ELSE \E random_sample \in SUBSET Candidates(n, flagged) :
                        /\ Cardinality(random_sample) =
                               Min(Cardinality(Candidates(n, flagged)), SampleSize(n))
                        /\ targeted' = TargetedIndices(flagged, random_sample)
                        /\ ti' = 1
                        /\ pc' = "target"
                        /\ UNCHANGED result
    /\ UNCHANGED <<num_questions, difficulty, question_type_counts, exhausted, attempt, genResp, quiz, generated,
                   refAttempt, feedback>>
    /\ UNCHANGED <<normVars, guiVars, callVars, fnVars>>

\* the parsed answer of the critic to critique_questions([q]): a one-element
\* list holding an object (approved true, false or missing) or something
\* that is no object; anything else makes critique_questions fall back
CriticAnswers == {"approved", "rejected", "noapproved", "nondict", "failed"}

\* a feedback that would never count as approved (for comparison)
FeedbackUnapproved(c, k) ==
    [approved |-> FALSE,
     issues |-> IF c = "failed" THEN "Critique failed" ELSE "model",
     of |-> k]

\* a feedback that would stay marked as the critique of the original
\* question (for comparison)
FeedbackOfOriginal(c, k) ==
    [approved |-> (c = "approved"),
     issues |-> IF c = "failed" THEN "Critique failed" ELSE "model",
     of |-> 0]

\* a fallback of critique_questions that would approve a refined candidate
\* (for comparison)
FeedbackFallbackApproves(c, k) ==
    [approved |-> (c = "approved" \/ (c = "failed" /\ k > 0)),
     issues |-> IF c = "failed" THEN "Critique failed" ELSE "model",
     of |-> k]

\* crits[0]; of is the refinement attempt whose candidate was critiqued
\* (0 for the critique of the original question)
Feedback(c, k) ==
    [approved |-> (c = "approved"),
     issues |-> IF c = "failed" THEN "Critique failed" ELSE "model",
     of |-> k]

\* feedback.get(...) raises AttributeError when the entry is no object
FeedbackRaises(c) == c = "nondict"

\* position in the list of the Python index idx (1-based; a negative idx
\* counts from the end)
Position(idx, n) == IF idx < 0 THEN n + idx + 1 ELSE idx + 1

\* questions[idx] raises IndexError
IndexRaises(idx, n) == idx >= n \/ idx < 0 - n

CurrentIdx == targeted[ti]
CurrentPos == Position(CurrentIdx, Len(quiz.questions))

\* a loop that would stay on the same index (for comparison)
RepeatIndex ==
    /\ ti' = ti
    /\ pc' = "target"
    /\ refAttempt' = 0
    /\ feedback' = NoFeedback
    /\ UNCHANGED result

\* the for loop moves on to the next index: the locals of the loop body are
\* dead
NextIndex ==
    /\ ti' = ti + 1
    /\ pc' = "target"
    /\ refAttempt' = 0
    /\ feedback' = NoFeedback
    /\ UNCHANGED result

\* for idx in targeted_indices: the detailed critique of questions[idx]
CritiqueTarget ==
    /\ pc = "target"
    /\ ti <= Len(targeted)
    /\ IF IndexRaises(CurrentIdx, Len(quiz.questions))
       THEN Raise /\ UNCHANGED <<ti, refAttempt, feedback, calls>>
       ELSE \E c \in CriticAnswers :
            IF FeedbackRaises(c)
            THEN /\ Raise
                 /\ calls' = [calls EXCEPT !.critic = TRUE,
                                           !.unapproved = @ \/ c # "approved",
                                           !.parsed = @ \/ c # "failed"]
                 /\ UNCHANGED <<ti, refAttempt, feedback>>
            ELSE IF Feedback(c, 0).approved
            THEN /\ NextIndex
                 /\ calls' = [calls EXCEPT !.critic = TRUE,
                                           !.unapproved = @ \/ c # "approved",
                                           !.parsed = @ \/ c # "failed"]
            ELSE /\ feedback' = Feedback(c, 0)
                 /\ calls' = [calls EXCEPT !.critic = TRUE,
                                           !.unapproved = @ \/ c # "approved",
                                           !.parsed = @ \/ c # "failed"]
                 /\ refAttempt' = 0
                 /\ pc' = "refine"
                 /\ UNCHANGED <<ti, result>>
    /\ UNCHANGED <<num_questions, difficulty, question_type_counts, exhausted, attempt, genResp, quiz, generated,
                   targeted>>
    /\ UNCHANGED <<normVars, guiVars, callVars, fnVars>>

\* the parsed answer of the generator to refine_question: a question object,
\* or something that is no object (nothing that parses, a list, a string)
RefineAnswers == GeneratedPool \cup {Q_notext, Q_nulltype, Q_mcq2}

\* refine_question(question, feedback, topic, subtopic, difficulty, qtype,
\* max_attempts=1) for the parsed answer of the generator: st is "ok" with
\* the refined question, "none", or "raise"
refine_question(question, parsed, diff, qtype) ==
    IF ~parsed.isdict THEN NormNone
    ELSE IF IsValidRaises(parsed) THEN NormRaise
    ELSE IF ~is_valid_question(parsed) THEN NormNone
    ELSE LET r == normalize_question(parsed, {qtype}, diff)
         IN  IF r.st = "ok"
             THEN [r EXCEPT !.q.difficulty = diff, !.q.id = question.id]
             ELSE r

\* a replacement that would append the refined question (for comparison)
ReplaceAppend(questions, pos, refined) == Append(questions, refined)

\* questions[idx] = refined
ReplaceAt(questions, pos, refined) == [questions EXCEPT ![pos] = refined]

\* the calls so far after a call of refine_question that gave r
RefineCalled(r) ==
    [calls EXCEPT !.refine = TRUE,
                  !.candidate = IF r.st = "ok" /\ is_valid_question(r.q)
                                THEN "valid" ELSE "invalid"]

\* one pass of "for attempt in range(max_refine_attempts)"
RefineAttempt ==
    /\ pc = "refine"
    /\ refAttempt < MaxRefineAttempts
    /\ LET q_obj == quiz.questions[CurrentPos]
       IN  IF ~q_obj.isdict
           THEN \* q_obj.get("topic", ""): AttributeError, before the call
                Raise /\ UNCHANGED <<quiz, ti, refAttempt, feedback, calls>>
           ELSE \E parsed \in RefineAnswers :
                LET r == refine_question(q_obj, parsed, difficulty, Get(q_obj.type))
                IN  IF r.st = "raise"
                    THEN /\ Raise
                         /\ calls' = RefineCalled(r)
                         /\ UNCHANGED <<quiz, ti, refAttempt, feedback>>
                    ELSE IF r.st = "ok" /\ is_valid_question(r.q)
                    THEN \* post_crit = critique_questions([refined])[0]
                         \E c \in CriticAnswers :
                         /\ calls' = [RefineCalled(r) EXCEPT
                                          !.parsed = @ \/ c # "failed"]
                         /\ IF FeedbackRaises(c)
                            THEN Raise /\ UNCHANGED <<quiz, ti, refAttempt, feedback>>
                            ELSE IF Feedback(c, refAttempt + 1).approved
                            THEN /\ quiz' = [quiz EXCEPT !.questions =
                                                ReplaceAt(@, CurrentPos, r.q)]
                                 /\ NextIndex
                            ELSE /\ feedback' = Feedback(c, refAttempt + 1)
                                 /\ refAttempt' = refAttempt + 1
                                 /\ UNCHANGED <<pc, result, quiz, ti>>
                    ELSE /\ calls' = RefineCalled(r)
                         /\ refAttempt' = refAttempt + 1
                         /\ UNCHANGED <<pc, result, quiz, ti, feedback>>
    /\ UNCHANGED <<num_questions, difficulty, question_type_counts, exhausted, attempt, genResp, generated, targeted>>
    /\ UNCHANGED <<normVars, guiVars, callVars, fnVars>>

\* the refinement loop ran out: "if not is_valid_question(questions[idx])"
\* logs and the for loop goes on to the next index
RefineExhausted ==
    /\ pc = "refine"
    /\ refAttempt >= MaxRefineAttempts
    /\ IF IsValidRaises(quiz.questions[CurrentPos])
       THEN Raise /\ UNCHANGED <<ti, refAttempt, feedback, exhausted>>
       ELSE NextIndex /\ exhausted' = exhausted \cup {CurrentPos}
    /\ UNCHANGED <<num_questions, difficulty, question_type_counts, attempt, genResp, quiz, generated,
                   targeted, calls>>
    /\ UNCHANGED <<normVars, guiVars, callVars, fnVars>>

AllowedFinal == AllTypes   \* allowed_types of the final pass

\* a final pass that would keep every normalized question (for comparison)
KeepAlways(nq) == TRUE

\* "if nq and is_valid_question(nq)" of the final pass, for a normalized nq
KeepQuestion(nq) == is_valid_question(nq)

\* a return of all of final_questions (for comparison)
TruncateNone(final_questions, n) == final_questions

\* final_questions[:num_questions], for num_questions >= 0
Truncate(final_questions, n) ==
    SubSeq(final_questions, 1, Min(n, Len(final_questions)))

\* the final loop over questions[i..]: st is "ok" with final_questions, or
\* "raise" (normalize_question raised, or q.get(...) of the log line did on
\* an entry that is no object)
RECURSIVE FinalLoop(_, _, _, _)
FinalLoop(questions, i, diff, final_questions) ==
    IF i > Len(questions) THEN [st |-> "ok", qs |-> final_questions]
    ELSE LET q == questions[i]
             r == normalize_question(q, AllowedFinal, diff)
         IN  IF r.st = "raise" THEN [st |-> "raise", qs |-> <<>>]
             ELSE IF r.st = "ok" /\ KeepQuestion(r.q)
             THEN FinalLoop(questions, i + 1, diff, Append(final_questions, r.q))
             ELSE IF ~q.isdict THEN [st |-> "raise", qs |-> <<>>]
             ELSE FinalLoop(questions, i + 1, diff, final_questions)

\* the final normalization pass, the truncation and the return
FinalPass ==
    /\ pc = "target"
    /\ ti > Len(targeted)
    /\ LET f == FinalLoop(quiz.questions, 1, difficulty, <<>>)
       IN  IF f.st = "raise"
           THEN Raise /\ UNCHANGED quiz
           ELSE /\ quiz' = [quiz EXCEPT !.questions = Truncate(f.qs, num_questions)]
                /\ pc' = "done"
                /\ result' = "quiz"
    /\ UNCHANGED <<num_questions, difficulty, question_type_counts, exhausted, attempt, genResp, generated, targeted,
                   ti, refAttempt, feedback, calls>>
    /\ UNCHANGED <<normVars, guiVars, callVars, fnVars>>

NextPipe ==
    \/ Generate
    \/ GenerateFailed
    \/ BatchCritique
    \/ CritiqueTarget
    \/ RefineAttempt
    \/ RefineExhausted
    \/ FinalPass

----------------------------------------------------------------------------
(* The job queue of QuizGeneratorGUI *)

MaxTasks == 2     \* tasks the user adds
MaxThreads == 3   \* GenerationThreads created

GuiIdle ==
    /\ task_queue = <<>> /\ current_thread = 0 /\ threads = {} /\ signals = <<>>
    /\ nextTask = 0 /\ nextThread = 0 /\ queueStatus = "off" /\ crashed = FALSE

InitGui ==
    /\ task_queue = <<>>
    /\ current_thread = 0
    /\ threads = {}
    /\ signals = <<>>
    /\ nextTask = 0
    /\ nextThread = 0
    /\ queueStatus = "Idle"
    /\ crashed = FALSE

\* the main window exists
GuiOn == queueStatus # "off" /\ ~crashed

\* GoogleFormDialog.add_to_queue: self.parent().task_queue.append(task)
AddToQueue ==
    /\ GuiOn
    /\ nextTask < MaxTasks
    /\ nextTask' = nextTask + 1
    /\ task_queue' = Append(task_queue, nextTask + 1)
    /\ UNCHANGED <<current_thread, threads, signals, nextThread, queueStatus, crashed>>
    /\ UNCHANGED <<pipeVars, normVars, callVars, fnVars>>

\* process_next_task, called with the queue, the thread reference and the
\* label text as the caller left them
ProcessNextTask(queue, thread, status) ==
    IF queue = <<>>
    THEN /\ queueStatus' = "Idle"
         /\ current_thread' = thread
         /\ UNCHANGED <<threads, nextThread>>
    ELSE /\ queueStatus' = status
         /\ nextThread' = nextThread + 1
         /\ current_thread' = nextThread + 1
         /\ threads' = threads \cup {[id |-> nextThread + 1, task |-> queue[1]]}

\* start_queue_processing (the Start button); with an empty queue it only
\* shows a warning
StartQueueProcessing ==
    /\ GuiOn
    /\ task_queue # <<>>
    /\ nextThread < MaxThreads
    /\ ProcessNextTask(task_queue, current_thread, "Processing...")
    /\ UNCHANGED <<task_queue, signals, nextTask, crashed>>
    /\ UNCHANGED <<pipeVars, normVars, callVars, fnVars>>

\* the signal GenerationThread.run emits when generate_questions_simple ended
\* with res: an exception, and len(questions) for a return of None, lead to
\* error_occurred; the returned quiz object is passed as first argument of
\* generation_complete, declared pyqtSignal(list, dict), and the binding
\* either takes it or raises TypeError, which run() catches
EmittedSignal(res, taken) ==
    IF res = "quiz" /\ taken
    THEN [kind |-> "complete", value |-> "quiz object"]
    ELSE [kind |-> "error", value |-> "message"]

\* GenerationThread.run returns: its last statement emitted generation_complete
\* or error_occurred, which is queued for the GUI thread.  A thread object
\* that self.current_thread no longer refers to is destroyed when run returns,
\* which Qt may answer by aborting the process.
ThreadEnds ==
    /\ GuiOn
    /\ \E th \in threads, res \in {"quiz", "none", "raised"}, taken \in BOOLEAN :
        /\ threads' = threads \ {th}
        /\ \/ /\ signals' = Append(signals,
                                   [kind |-> EmittedSignal(res, taken).kind,
                                    value |-> EmittedSignal(res, taken).value,
                                    thread |-> th.id, task |-> th.task])
              /\ UNCHANGED crashed
           \/ /\ th.id # current_thread
              /\ crashed' = TRUE
              /\ UNCHANGED signals
    /\ UNCHANGED <<task_queue, current_thread, nextTask, nextThread, queueStatus>>
    /\ UNCHANGED <<pipeVars, normVars, callVars, fnVars>>

\* on_generation_complete: pop(0), current_thread = None, export, then
\* process_next_task; pop(0) raises IndexError on an empty queue
OnGenerationComplete ==
    /\ GuiOn
    /\ signals # <<>>
    /\ Head(signals).kind = "complete"
    /\ Len(task_queue) > 1 => nextThread < MaxThreads
    /\ signals' = Tail(signals)
    /\ IF task_queue = <<>>
       THEN /\ crashed' = TRUE
            /\ UNCHANGED <<task_queue, current_thread, threads, nextThread, queueStatus>>
       ELSE /\ task_queue' = Tail(task_queue)
            /\ ProcessNextTask(Tail(task_queue), 0, "Processing...")
            /\ UNCHANGED crashed
    /\ UNCHANGED nextTask
    /\ UNCHANGED <<pipeVars, normVars, callVars, fnVars>>

\* on_generation_error: pop(0), current_thread = None, status Idle
OnGenerationError ==
    /\ GuiOn
    /\ signals # <<>>
    /\ Head(signals).kind = "error"
    /\ signals' = Tail(signals)
    /\ IF task_queue = <<>>
       THEN /\ crashed' = TRUE
            /\ UNCHANGED <<task_queue, current_thread, queueStatus>>
       ELSE /\ task_queue' = Tail(task_queue)
            /\ current_thread' = 0
            /\ queueStatus' = "Idle"
            /\ UNCHANGED crashed
    /\ UNCHANGED <<threads, nextTask, nextThread>>
    /\ UNCHANGED <<pipeVars, normVars, callVars, fnVars>>

NextGui ==
    \/ AddToQueue
    \/ StartQueueProcessing
    \/ ThreadEnds
    \/ OnGenerationComplete
    \/ OnGenerationError

----------------------------------------------------------------------------
(* One call of deduplicate_questions, critique_questions or batch_critique *)

MaxD == 3   \* longest list passed to deduplicate_questions
MaxC == 2   \* longest list passed to critique_questions and batch_critique

\* a text key that would not be trimmed (for comparison)
DedupKeyNoStrip(q) == Lower(PyStr(GetOr(q.question, Txt(<<>>))))

\* text = str(q.get("question", "")).strip().lower()
DedupKey(q) == Lower(Strip(PyStr(GetOr(q.question, Txt(<<>>)))))

\* the for loop of deduplicate_questions from questions[i] on
RECURSIVE DedupLoop(_, _, _, _)
DedupLoop(questions, i, seen, unique) ==
    IF i > Len(questions) THEN unique
    ELSE LET text == DedupKey(questions[i])
         IN  IF text # <<>> /\ text \notin seen
             THEN DedupLoop(questions, i + 1, seen \cup {text},
                            Append(unique, questions[i]))
             ELSE DedupLoop(questions, i + 1, seen, unique)

\* deduplicate_questions(questions): st is "ok" with the list unique, or
\* "raise" (q.get on an entry that is no object)
deduplicate_questions(questions) ==
    IF \E i \in 1..Len(questions) : ~questions[i].isdict
    THEN [st |-> "raise", qs |-> <<>>]
    ELSE [st |-> "ok", qs |-> DedupLoop(questions, 1, {}, <<>>)]

\* question texts passed to deduplicate_questions: the same words in several
\* spellings, other words, empty and blank text, no text, null
DedupTexts ==
    {Txt(S_true), Txt(X_TRUE), Txt(X_true_padded), Txt(X_yes), Txt(<<>>),
     Txt(<<" ">>), Absent, Null}

DedupPool ==
    {Question(x, Txt(T_ShortAnswer), NoOptions, Txt(<<"a">>), Absent) :
        x \in DedupTexts} \cup {NotADict}

DedupLists == UNION {{WithIds(qs) : qs \in [1..n -> DedupPool]} : n \in 0..MaxD}

\* the lists passed to the critic
CritiqueLists ==
    UNION {{WithIds(qs) : qs \in [1..n -> {Q_mcq, Q_sa}]} : n \in 0..MaxC}

\* the parsed answer of the critic to critique_questions for n questions:
\* nothing that parses, a JSON value that is no list, or a list of 0 to n + 1
\* entries, each an object (approved true, false or missing) or no object
CritiqueResponses(n) ==
    {[kind |-> k, items |-> <<>>] : k \in {"noparse", "nonlist"}}
    \cup
    UNION {{[kind |-> "list", items |-> es] :
               es \in [1..m -> {"approved", "rejected", "noapproved", "nondict"}]} :
           m \in 0..(n + 1)}

\* {"approved": False, "issues": ["Critique failed"], "suggestions": []}
CritiqueFallback == "failed"

\* critique_questions(questions) for the parsed answer of the critic
critique_questions(questions, parsed) ==
    IF parsed.kind = "list" /\ Len(parsed.items) = Len(questions)
    THEN parsed.items
    ELSE [i \in 1..Len(questions) |-> CritiqueFallback]

\* question_evaluator: {"approved": True, "comments": "Fallback approval"},
\* an approved record
EvaluatorFallback == "approved"

\* critique_questions of question_evaluator.py; parsed is the first answer of
\* the max_retries attempts that passes the test, or else the last answer
evaluator_critique_questions(questions, parsed) ==
    IF questions = <<>> THEN <<>>
    ELSE IF parsed.kind = "list" /\ parsed.items # <<>>
               /\ Len(parsed.items) = Len(questions)
         THEN parsed.items
         ELSE [i \in 1..Len(questions) |-> EvaluatorFallback]

NoResponse == [kind |-> "none", items |-> <<>>]

CallIdle ==
    /\ h_pc = "off" /\ h_fn = "none" /\ h_questions = <<>>
    /\ h_resp = NoResponse /\ h_difficulty = Null /\ h_out = <<>>

InitCall ==
    /\ h_pc = "call"
    /\ h_out = <<>>
    /\ \/ /\ h_fn = "deduplicate_questions"
          /\ h_questions \in DedupLists
          /\ h_resp = NoResponse
          /\ h_difficulty = Null
       \/ /\ h_fn \in {"critique_questions", "question_evaluator.critique_questions"}
          /\ h_questions \in CritiqueLists
          /\ h_resp \in CritiqueResponses(Len(h_questions))
          /\ h_difficulty \in {Txt(S_Easy), Txt(S_Hard)}
       \/ /\ h_fn = "batch_critique"
          /\ h_questions \in CritiqueLists
          /\ h_resp \in BatchAnswers(Len(h_questions))
          /\ h_difficulty \in {Txt(S_Easy), Txt(S_Hard)}

Deduplicate ==
    /\ h_pc = "call"
    /\ h_fn = "deduplicate_questions"
    /\ h_out' = deduplicate_questions(h_questions)
    /\ h_pc' = "returned"
    /\ UNCHANGED <<h_fn, h_questions, h_resp, h_difficulty>>
    /\ UNCHANGED <<pipeVars, normVars, guiVars, fnVars>>

CritiqueQuestions ==
    /\ h_pc = "call"
    /\ h_fn = "critique_questions"
    /\ h_out' = critique_questions(h_questions, h_resp)
    /\ h_pc' = "returned"
    /\ UNCHANGED <<h_fn, h_questions, h_resp, h_difficulty>>
    /\ UNCHANGED <<pipeVars, normVars, guiVars, fnVars>>

EvaluatorCritiqueQuestions ==
    /\ h_pc = "call"
    /\ h_fn = "question_evaluator.critique_questions"
    /\ h_out' = evaluator_critique_questions(h_questions, h_resp)
    /\ h_pc' = "returned"
    /\ UNCHANGED <<h_fn, h_questions, h_resp, h_difficulty>>
    /\ UNCHANGED <<pipeVars, normVars, guiVars, fnVars>>

\* batch_critique(questions, ...) followed by batch_feedback.get("flagged", [])
CallBatchCritique ==
    /\ h_pc = "call"
    /\ h_fn = "batch_critique"
    /\ h_out' = Flagged(h_resp)
    /\ h_pc' = "returned"
    /\ UNCHANGED <<h_fn, h_questions, h_resp, h_difficulty>>
    /\ UNCHANGED <<pipeVars, normVars, guiVars, fnVars>>

NextCall ==
    \/ Deduplicate
    \/ CritiqueQuestions
    \/ EvaluatorCritiqueQuestions
    \/ CallBatchCritique

----------------------------------------------------------------------------
(* One call of run_ollama, extract_json, analyze_question_difficulty or
   refine_question *)

MaxReq == 3   \* answers the outside world has ready for the requests of a call

\* what a request to the inference service ends with: a body with a response
\* text, a JSON body that is an object or list without "response", a
\* connection error or timeout, an HTTP error status, a body that is not
\* JSON, a JSON body that is null or a number
RequestOutcomes ==
    {"ok", "no_field", "transport", "http_error", "not_json", "json_scalar"}

\* fallback_model of question_evaluator.run_ollama, and another model
FallbackModel == "gpt-oss:20b"
OtherModel == "deepseek-r1:14b"

\* the answer to the next request; requests beyond the prepared answers time out
NextAnswer(answers) == IF answers = <<>> THEN "transport" ELSE Head(answers)
RestAnswers(answers) == IF answers = <<>> THEN <<>> ELSE Tail(answers)

\* question_evaluator.run_ollama: "for attempt in range(max_retries)" with
\* left passes to go.  sent lists the model of every request sent; text is the
\* number of the request whose response text is returned.  response.json()
\* raises for a body that is not JSON: a RequestException (caught) or a
\* ValueError, depending on the installed requests; "response" in data raises
\* TypeError for null and for a number.
RECURSIVE EvaluatorAttempts(_, _, _, _, _)
EvaluatorAttempts(model, left, answers, sent, caught) ==
    IF left = 0 THEN [st |-> "exhausted", text |-> 0, sent |-> sent, answers |-> answers]
    ELSE LET a == NextAnswer(answers)
             sent1 == Append(sent, model)
         IN  IF a = "ok"
             THEN [st |-> "text", text |-> Len(sent1), sent |-> sent1,
                   answers |-> RestAnswers(answers)]
             ELSE IF a = "json_scalar" \/ (a = "not_json" /\ ~caught)
             THEN [st |-> "raise", text |-> 0, sent |-> sent1,
                   answers |-> RestAnswers(answers)]
             ELSE EvaluatorAttempts(model, left - 1, RestAnswers(answers),
                                    sent1, caught)

\* question_evaluator.run_ollama(model, prompt, max_retries)
RECURSIVE evaluator_run_ollama(_, _, _, _, _)
evaluator_run_ollama(model, max_retries, answers, sent, caught) ==
    LET r == EvaluatorAttempts(model, max_retries, answers, sent, caught)
    IN  IF r.st # "exhausted" THEN r
        ELSE IF model # FallbackModel
        THEN evaluator_run_ollama(FallbackModel, 1, r.answers, r.sent, caught)
        ELSE [r EXCEPT !.st = "none"]

\* ai_pipeline.run_ollama(model, prompt): one streamed request inside
\* try/except Exception; lines that are no object with "response" are skipped
run_ollama(model, answers) ==
    LET a == NextAnswer(answers)
    IN  IF a = "ok"
        THEN [st |-> "text", text |-> 1, sent |-> <<model>>,
              answers |-> RestAnswers(answers)]
        ELSE [st |-> "empty", text |-> 0, sent |-> <<model>>,
              answers |-> RestAnswers(answers)]

\* --- extract_json ---

DQ == "\""    \* the double quote
SQ == "'"     \* the single quote
\* the backtick, which cannot be written inside a string of this language
BT == "backtick"
S_null == <<"n", "u", "l", "l">>
S_false == <<"f", "a", "l", "s", "e">>
S_response == <<"r", "e", "s", "p", "o", "n", "s", "e">>
S_fence == <<BT, BT, BT>>
S_fence_json == <<BT, BT, BT, "j", "s", "o", "n">>

\* s.startswith(pat), s.endswith(pat), s[n:]
StartsWith(s, pat) == MatchAt(s, pat, 1)
EndsWith(s, pat) == Len(s) >= Len(pat) /\ MatchAt(s, pat, Len(s) - Len(pat) + 1)
Drop(s, n) == SubSeq(s, n + 1, Len(s))

\* s.rstrip(chars): chars is a set of characters
RECURSIVE RStripChars(_, _)
RStripChars(s, chars) ==
    IF s # <<>> /\ s[Len(s)] \in chars
    THEN RStripChars(SubSeq(s, 1, Len(s) - 1), chars) ELSE s

\* s.replace(pat, new), from position i on
RECURSIVE ReplaceFrom(_, _, _, _)
ReplaceFrom(s, pat, new, i) ==
    IF i > Len(s) THEN <<>>
    ELSE IF MatchAt(s, pat, i) THEN new \o ReplaceFrom(s, pat, new, i + Len(pat))
    ELSE <<s[i]>> \o ReplaceFrom(s, pat, new, i + 1)
Replace(s, pat, new) == ReplaceFrom(s, pat, new, 1)

\* json.loads reads the text as tokens: punctuation, and values (a string in
\* double quotes, an integer, null, true, false); anything else is no JSON
BadToken == [k |-> "bad", v |-> Null]
ValueToken(v) == [k |-> "val", v |-> v]

RECURSIVE JsonTokens(_, _)
JsonTokens(s, i) ==
    IF i > Len(s) THEN <<>>
    ELSE IF IsSpace(s[i]) THEN JsonTokens(s, i + 1)
    ELSE IF s[i] \in {"{", "}", "[", "]", ":", ","}
    THEN <<[k |-> s[i], v |-> Null]>> \o JsonTokens(s, i + 1)
    ELSE IF s[i] = DQ
    THEN LET closing == {j \in (i + 1)..Len(s) : s[j] = DQ}
         IN  IF closing = {} THEN <<BadToken>>
             ELSE LET j == CHOOSE x \in closing : \A y \in closing : x <= y
                  IN  <<ValueToken(Txt(SubSeq(s, i + 1, j - 1)))>>
                          \o JsonTokens(s, j + 1)
    ELSE IF IsDigit(s[i])
    THEN LET j == DigitsEnd(s, i)
         IN  <<ValueToken(Num(DigitsVal(s, i, j)))>> \o JsonTokens(s, j)
    ELSE IF MatchAt(s, S_null, i)
    THEN <<ValueToken(Null)>> \o JsonTokens(s, i + 4)
    ELSE IF MatchAt(s, S_true, i)
    THEN <<ValueToken(Bool(TRUE))>> \o JsonTokens(s, i + 4)
    ELSE IF MatchAt(s, S_false, i)
    THEN <<ValueToken(Bool(FALSE))>> \o JsonTokens(s, i + 5)
    ELSE <<BadToken>>

\* the tokens between the braces are "key": value pairs separated by commas
IsMembers(ts) ==
    \/ ts = <<>>
    \/ /\ Len(ts) % 4 = 3
       /\ \A i \in 1..Len(ts) :
              CASE i % 4 = 1 -> ts[i].k = "val" /\ ts[i].v.t = "str"
                [] i % 4 = 2 -> ts[i].k = ":"
                [] i % 4 = 3 -> ts[i].k = "val"
                [] OTHER -> ts[i].k = ","

\* the tokens between the brackets are values separated by commas
IsElements(ts) ==
    \/ ts = <<>>
    \/ /\ Len(ts) % 2 = 1
       /\ \A i \in 1..Len(ts) :
              IF i % 2 = 1 THEN ts[i].k = "val" ELSE ts[i].k = ","

Dict(members) == [t |-> "dict", items |-> members]
List(elements) == [t |-> "list", items |-> elements]
LoadFailed == [ok |-> FALSE, v |-> Null]
Loaded(v) == [ok |-> TRUE, v |-> v]

\* json.loads(s) for a text whose objects and lists hold values only: ok is
\* FALSE for the JSONDecodeError
json_loads(s) ==
    LET ts == JsonTokens(s, 1)
        n == Len(ts)
        inner == SubSeq(ts, 2, n - 1)
    IN  IF n = 0 \/ \E i \in 1..n : ts[i] = BadToken THEN LoadFailed
        ELSE IF n = 1
        THEN IF ts[1].k = "val" THEN Loaded(ts[1].v) ELSE LoadFailed
        ELSE IF ts[1].k = "{" /\ ts[n].k = "}" /\ IsMembers(inner)
        THEN Loaded(Dict([j \in 1..((Len(inner) + 1) \div 4) |->
                 [key |-> inner[4 * j - 3].v.s, value |-> inner[4 * j - 1].v]]))
        ELSE IF ts[1].k = "[" /\ ts[n].k = "]" /\ IsElements(inner)
        THEN Loaded(List([j \in 1..((Len(inner) + 1) \div 2) |-> inner[2 * j - 1].v]))
        ELSE LoadFailed

\* re.search for an object or a list in s: the leftmost position where one
\* of the alternatives matches, up to the last closing character; <<>> for
\* no match
OpensAt(s, i, open, close) ==
    s[i] = open /\ \E j \in (i + 1)..Len(s) : s[j] = close
LastOf(s, c) == CHOOSE j \in 1..Len(s) : s[j] = c /\ \A k \in (j + 1)..Len(s) : s[k] # c
RegexCandidate(s) ==
    LET starts == {i \in 1..Len(s) : OpensAt(s, i, "{", "}") \/ OpensAt(s, i, "[", "]")}
    IN  IF starts = {} THEN <<>>
        ELSE LET i == CHOOSE x \in starts : \A y \in starts : x <= y
             IN  IF OpensAt(s, i, "{", "}") THEN SubSeq(s, i, LastOf(s, "}"))
                 ELSE SubSeq(s, i, LastOf(s, "]"))

ExtractNone == [st |-> "none", v |-> Null]
Extracted(v) == [st |-> "ok", v |-> v]

\* ai_pipeline: fixed = candidate.replace("'", '"')
Repair(candidate) == Replace(candidate, <<SQ>>, <<DQ>>)

\* question_generator: candidate.replace("'", '"').replace("None", "null")
GeneratorRepair(candidate) ==
    Replace(Replace(candidate, <<SQ>>, <<DQ>>), S_None, S_null)

\* ai_pipeline.extract_json: the text after strip() and the removal of the fence
Unfenced(raw_text) ==
    LET text == Strip(raw_text)
    IN  IF StartsWith(text, S_fence_json)
        THEN Strip(RStripChars(Drop(text, 7), {BT}))
        ELSE IF StartsWith(text, S_fence)
        THEN Strip(RStripChars(Drop(text, 3), {BT}))
        ELSE text

\* ai_pipeline.extract_json(raw_text); a raw_text that is no string is
\* returned as it is
extract_json(raw) ==
    IF raw.t # "str" THEN (IF raw = Null THEN ExtractNone ELSE Extracted(raw))
    ELSE LET text == Unfenced(raw.s)
             candidate == RegexCandidate(text)
         IN  IF json_loads(text).ok THEN Extracted(json_loads(text).v)
             ELSE IF candidate = <<>> THEN ExtractNone
             ELSE IF json_loads(candidate).ok THEN Extracted(json_loads(candidate).v)
             ELSE IF json_loads(Repair(candidate)).ok
             THEN Extracted(json_loads(Repair(candidate)).v)
             ELSE ExtractNone

\* key in d, d[key] for a parsed object
HasKey(d, key) == d.t = "dict" /\ \E i \in 1..Len(d.items) : d.items[i].key = key
ValueOf(d, key) ==
    d.items[CHOOSE i \in 1..Len(d.items) :
                d.items[i].key = key
                /\ \A j \in (i + 1)..Len(d.items) : d.items[j].key # key].value

\* question_generator.extract_json: the text of a {"response": ...} wrapper
\* is unwrapped
IsWrapped(stripped) ==
    json_loads(stripped).ok /\ HasKey(json_loads(stripped).v, S_response)
Unwrapped(stripped) ==
    IF IsWrapped(stripped) THEN ValueOf(json_loads(stripped).v, S_response).s
    ELSE stripped

\* question_generator.extract_json: raw_text[7:] after ```json, raw_text[:-3]
\* before ```
GeneratorUnfenced(a) ==
    LET b == IF StartsWith(a, S_fence_json) THEN Drop(a, 7) ELSE a
    IN  Strip(IF EndsWith(b, S_fence) THEN SubSeq(b, 1, Len(b) - 3) ELSE b)

\* question_generator.extract_json: direct parse, bracket substring, repair
GeneratorParse(text) ==
    IF json_loads(text).ok THEN Extracted(json_loads(text).v)
    ELSE IF RegexCandidate(text) = <<>> THEN ExtractNone
    ELSE IF json_loads(RegexCandidate(text)).ok
    THEN Extracted(json_loads(RegexCandidate(text)).v)
    ELSE IF json_loads(GeneratorRepair(RegexCandidate(text))).ok
    THEN Extracted(json_loads(GeneratorRepair(RegexCandidate(text))).v)
    ELSE ExtractNone

\* question_generator.extract_json(raw_text); a wrapped response that is no
\* string makes .strip() raise
generator_extract_json(raw) ==
    IF raw.t # "str" \/ Strip(raw.s) = <<>> THEN ExtractNone
    ELSE IF IsWrapped(Strip(raw.s))
            /\ ValueOf(json_loads(Strip(raw.s)).v, S_response).t # "str"
    THEN [st |-> "raise", v |-> Null]
    ELSE IF Strip(Unwrapped(Strip(raw.s))) = <<>> THEN ExtractNone
    ELSE GeneratorParse(GeneratorUnfenced(Strip(Unwrapped(Strip(raw.s)))))

\* model output: a JSON text or something like it, alone, after a remark,
\* before a remark, inside a fence
X_obj == <<"{", DQ, "a", DQ, ":", " ", "1", "}">>
X_obj_sq == <<"{", SQ, "a", SQ, ":", " ", "1", "}">>
X_obj_sq_None == <<"{", SQ, "a", SQ, ":", " ", "1", ",", " ", SQ, "b", SQ, ":", " ", "N", "o", "n", "e", "}">>
X_obj_None == <<"{", DQ, "b", DQ, ":", " ", "N", "o", "n", "e", "}">>
X_list == <<"[", "1", ",", " ", "2", "]">>
X_list_sq == <<"[", SQ, "a", SQ, "]">>
X_open == <<"{", DQ, "a", DQ, ":", " ">>
X_response == <<"{", DQ, "r", "e", "s", "p", "o", "n", "s", "e", DQ, ":", " ", "1", "}">>
X_sure == <<"S", "u", "r", "e", ":", " ">>
X_ok == <<" ", "o", "k">>

ModelBodies ==
    {X_obj, X_obj_sq, X_obj_sq_None, X_obj_None, X_list, X_list_sq, X_open,
     X_response, S_null, X_yes, <<>>}

Fenced(kind, s) ==
    CASE kind = "json" -> S_fence_json \o <<"\n">> \o s \o <<"\n">> \o S_fence
      [] kind = "plain" -> S_fence \o <<"\n">> \o s \o <<"\n">> \o S_fence
      [] OTHER -> s

ModelOutputs ==
    {Txt(Fenced(f, pre \o body \o post)) :
        f \in {"json", "plain", "none"}, pre \in {<<>>, X_sure},
        body \in ModelBodies, post \in {<<>>, X_ok}}
    \cup {Null}

\* --- analyze_question_difficulty ---

\* a question text: a word, a number or none (0 digits), an arithmetic cue or
\* none, some " and ..." and some ", ..." parts
S_Total == <<"T", "o", "t", "a", "l">>
DifficultyNumbers == {-1, 5, 19, 20, 99, 100, 999, 1000}
DifficultyCues == {<<>>, <<"+">>, S_Total}
DifficultyAnswers == {Absent, Null, Txt(<<"7">>), Num(150), Txt(<<"2", "5", "0", "0", ".", "5">>)}

RECURSIVE Repeat(_, _)
Repeat(s, n) == IF n = 0 THEN <<>> ELSE s \o Repeat(s, n - 1)

DifficultyQuestionText(num, cue, ands, commas) ==
    <<"x">> \o (IF num < 0 THEN <<>> ELSE <<" ">> \o NatStr(num))
            \o (IF cue = <<>> THEN <<>> ELSE <<" ">> \o cue)
            \o Repeat(<<" ", "a", "n", "d", " ", "y">>, ands)
            \o Repeat(<<",", " ", "z">>, commas)
            \o <<"?">>

\* the arguments of analyze_question_difficulty, with what the text was
\* built from; a question without text or with a text that is no string
DifficultyArgs ==
    {[question |-> Question(Txt(DifficultyQuestionText(num, cue, ands, commas)),
                            Txt(L_sa), NoOptions, ans, Absent),
      num |-> num, cue |-> cue, ands |-> ands, commas |-> commas] :
        num \in DifficultyNumbers, cue \in DifficultyCues, ands \in 0..2,
        commas \in 0..1, ans \in DifficultyAnswers}
    \cup {[question |-> Question(text, Txt(L_sa), NoOptions, Txt(<<"7">>), Absent),
           num |-> -1, cue |-> <<>>, ands |-> 0, commas |-> 0] :
             text \in {Absent, Null, Num(5)}}

\* --- refine_question ---

Q_tf_Correct == Question(Txt(X_is_3_odd), Txt(T_TrueFalse), NoOptions, Txt(S_Correct), Absent)

\* the arguments of refine_question that matter here, and the parsed answer
\* of the generator
RefineArgs ==
    {[question |-> q, parsed |-> parsed, qtype |-> qtype, difficulty |-> d] :
        q \in {Q_mcq, Q_tf, Q_noanswer, Q_nulltype},
        parsed \in RefineAnswers \cup {Q_tf_Correct},
        qtype \in {Txt(T_MCQ), Txt(T_TrueFalse), Txt(T_ShortAnswer), Txt(L_tf),
                   Txt(L_mcq), Null},
        d \in {Txt(S_Easy), Txt(S_Hard)}}

\* --- the choice of the targeted indices ---

\* numbers of questions around the steps of sample_size
SelectionSizes == {0, 1, 4, 5, 6, 7, 24, 25, 29, 30, 34, 35, 49, 50, 51, 60}

\* flagged lists of the critic for n questions: a first part of the indices,
\* the even indices, an index past the end, an index counted from the end
FlaggedSets(n) ==
    {{i \in 0..(n - 1) : i < j} : j \in {0, 1, n - 6, n - 5, n - 4, n - 1, n} \cap (0..n)}
    \cup {{i \in 0..(n - 1) : i % 2 = 0}, {n}, {-1}}

SelectionArgs ==
    {[n |-> n, flagged |-> [kind |-> "list", ints |-> F, nonint |-> FALSE]] :
        n \in SelectionSizes, F \in UNION {FlaggedSets(m) : m \in SelectionSizes}}
    \cup
    {[n |-> n, flagged |-> [kind |-> k, ints |-> {}, nonint |-> b]] :
        n \in {0, 6}, k \in {"failed", "nonlist", "list"}, b \in BOOLEAN}

\* random.sample(candidates, k): every choice for up to 6 candidates; for
\* more, k candidates in a row from the start, the middle or the end
RandomSamples(candidates, k) ==
    IF Cardinality(candidates) <= 6
    THEN {S \in SUBSET candidates : Cardinality(S) = k}
    ELSE LET c == Sorted(candidates)
             m == Len(c)
         IN  {{c[i] : i \in (o + 1)..(o + k)} : o \in {0, (m - k) \div 2, m - k}}

NoArg == [model |-> "none"]
NoOut == [st |-> "none"]

FnIdle == f_pc = "off" /\ f_fn = "none" /\ f_arg = NoArg /\ f_out = NoOut

\* the arguments of a call of run_ollama and the answers waiting for it
RunOllamaArgs ==
    {[model |-> m, answers |-> as, caught |-> c] :
        m \in {FallbackModel, OtherModel},
        as \in [1..MaxReq -> RequestOutcomes],
        c \in BOOLEAN}

InitFn ==
    /\ f_pc = "call"
    /\ f_out = NoOut
    /\ \/ /\ f_fn \in {"run_ollama", "question_evaluator.run_ollama"}
          /\ f_arg \in RunOllamaArgs
       \/ /\ f_fn \in {"extract_json", "question_generator.extract_json"}
          /\ f_arg \in {[raw_text |-> x] : x \in ModelOutputs}
       \/ /\ f_fn = "analyze_question_difficulty"
          /\ f_arg \in DifficultyArgs
       \/ /\ f_fn = "refine_question"
          /\ f_arg \in RefineArgs
       \/ /\ f_fn = "targeted_indices"
          /\ f_arg \in {a \in SelectionArgs :
                            \A i \in a.flagged.ints : i <= a.n /\ i >= 0 - 1}

RunOllama ==
    /\ f_pc = "call"
    /\ f_fn = "run_ollama"
    /\ f_out' = run_ollama(f_arg.model, f_arg.answers)
    /\ f_pc' = "returned"
    /\ UNCHANGED <<f_fn, f_arg>>
    /\ UNCHANGED <<pipeVars, normVars, guiVars, callVars>>

EvaluatorRunOllama ==
    /\ f_pc = "call"
    /\ f_fn = "question_evaluator.run_ollama"
    /\ f_out' = evaluator_run_ollama(f_arg.model, 2, f_arg.answers, <<>>,
                                     f_arg.caught)
    /\ f_pc' = "returned"
    /\ UNCHANGED <<f_fn, f_arg>>
    /\ UNCHANGED <<pipeVars, normVars, guiVars, callVars>>

ExtractJson ==
    /\ f_pc = "call"
    /\ f_fn = "extract_json"
    /\ f_out' = extract_json(f_arg.raw_text)
    /\ f_pc' = "returned"
    /\ UNCHANGED <<f_fn, f_arg>>
    /\ UNCHANGED <<pipeVars, normVars, guiVars, callVars>>

GeneratorExtractJson ==
    /\ f_pc = "call"
    /\ f_fn = "question_generator.extract_json"
    /\ f_out' = generator_extract_json(f_arg.raw_text)
    /\ f_pc' = "returned"
    /\ UNCHANGED <<f_fn, f_arg>>
    /\ UNCHANGED <<pipeVars, normVars, guiVars, callVars>>

AnalyzeQuestionDifficulty ==
    /\ f_pc = "call"
    /\ f_fn = "analyze_question_difficulty"
    /\ f_out' = IF DifficultyRaises(f_arg.question) THEN [st |-> "raise", v |-> Null]
                ELSE Extracted(analyze_question_difficulty(f_arg.question))
    /\ f_pc' = "returned"
    /\ UNCHANGED <<f_fn, f_arg>>
    /\ UNCHANGED <<pipeVars, normVars, guiVars, callVars>>

RefineQuestion ==
    /\ f_pc = "call"
    /\ f_fn = "refine_question"
    /\ f_out' = refine_question(f_arg.question, f_arg.parsed, f_arg.difficulty,
                                f_arg.qtype)
    /\ f_pc' = "returned"
    /\ UNCHANGED <<f_fn, f_arg>>
    /\ UNCHANGED <<pipeVars, normVars, guiVars, callVars>>

\* the lines of generate_questions_simple that choose targeted_indices
SelectTargets ==
    /\ f_pc = "call"
    /\ f_fn = "targeted_indices"
    /\ LET flagged == Flagged(f_arg.flagged)
           candidates == Candidates(f_arg.n, flagged)
       IN  IF BatchRaises(flagged)
           THEN f_out' = [st |-> "raise", targeted |-> <<>>]
           ELSE \E random_sample \in
                    RandomSamples(candidates,
                                  Min(Cardinality(candidates), SampleSize(f_arg.n))) :
                    f_out' = [st |-> "ok",
                              targeted |-> TargetedIndices(flagged, random_sample)]
    /\ f_pc' = "returned"
    /\ UNCHANGED <<f_fn, f_arg>>
    /\ UNCHANGED <<pipeVars, normVars, guiVars, callVars>>

NextFn ==
    \/ SelectTargets
    \/ AnalyzeQuestionDifficulty
    \/ RefineQuestion
    \/ RunOllama
    \/ EvaluatorRunOllama
    \/ ExtractJson
    \/ GeneratorExtractJson

----------------------------------------------------------------------------
(* Specifications *)

\* a run of the pipeline
PipeStart == InitPipe /\ NormIdle /\ GuiIdle /\ CallIdle /\ FnIdle
SpecPipe == PipeStart /\ [][NextPipe]_vars

\* the steps before the final pass
BeforeFinalPass ==
    \/ Generate
    \/ GenerateFailed
    \/ BatchCritique
    \/ CritiqueTarget
    \/ RefineAttempt
    \/ RefineExhausted

\* the final pass, as far as the position in the code goes: FinalPass is the
\* one step that leaves the position after the last targeted index
FinalPassTaken == pc = "target" /\ ti > Len(targeted) /\ pc' = "done"

\* a run of the pipeline in which every model call returns and the
\* interpreter goes on: a step that can be taken is taken
SpecPipeLive ==
    PipeStart /\ [][NextPipe]_vars /\ WF_vars(BeforeFinalPass) /\ WF_pc(FinalPassTaken)

\* a call of normalize_question
NormStart == InitNorm /\ PipeIdle /\ GuiIdle /\ CallIdle /\ FnIdle
SpecNorm == NormStart /\ [][NextNorm]_vars

\* the job queue
GuiStart == InitGui /\ PipeIdle /\ NormIdle /\ CallIdle /\ FnIdle

SpecGui == GuiStart /\ [][NextGui]_vars

\* the job queue with the Qt event loop delivering every queued signal and
\* every GenerationThread running to its end; the user's actions (adding a
\* task, clicking Start) are never required
SpecGuiLive ==
    /\ GuiStart /\ [][NextGui]_vars
    /\ WF_vars(ThreadEnds)
    /\ WF_vars(OnGenerationComplete)
    /\ WF_vars(OnGenerationError)

\* a call of deduplicate_questions or of a critique function
CallStart == InitCall /\ PipeIdle /\ NormIdle /\ GuiIdle /\ FnIdle
SpecCall == CallStart /\ [][NextCall]_vars

\* a call of the inference client or of a pure function
FnStart == InitFn /\ PipeIdle /\ NormIdle /\ GuiIdle /\ CallIdle
SpecFn == FnStart /\ [][NextFn]_vars

Init == PipeStart \/ NormStart \/ GuiStart \/ CallStart \/ FnStart

Next == NextPipe \/ NextNorm \/ NextGui \/ NextCall \/ NextFn

\* any of the five
Spec == Init /\ [][Next]_vars

----------------------------------------------------------------------------
(* Properties of generate_questions_simple (SpecPipe) *)

\* C1: a call with num_questions = N that returns a quiz returns between 0
\* and N questions, whatever the generator and the critic answered.
C1_QuizSizeBound ==
    result = "quiz" =>
        Len(quiz.questions) >= 0 /\ Len(quiz.questions) <= num_questions

\* C1 at work: two questions were generated, the second one is valid, one
\* was asked for, and the returned quiz holds the first one only
C1_Truncated ==
    /\ result = "quiz"
    /\ num_questions = 1
    /\ Len(generated) = 2
    /\ is_valid_question(generated[2])
    /\ Len(quiz.questions) = 1
    /\ quiz.questions[1].id = 1

\* C2: every question of the returned quiz satisfies is_valid_question,
\* whatever happened during critique and refinement.
C2_OutputValid ==
    result = "quiz" =>
        \A i \in 1..Len(quiz.questions) :
            /\ ~IsValidRaises(quiz.questions[i])
            /\ is_valid_question(quiz.questions[i])

\* C2 at work: a generated question that is not valid was rejected by the
\* critic, refinement was asked for and never replaced it, and the returned
\* quiz holds the other question only
C2_InvalidDropped ==
    /\ result = "quiz"
    /\ calls.critic /\ calls.refine
    /\ Len(generated) = 2
    /\ ~is_valid_question(generated[1])
    /\ Len(quiz.questions) = 1
    /\ quiz.questions[1].id = 2

\* C3: a call of generate_questions_simple ends by returning a quiz or none,
\* never by raising an exception, whatever the models answered.
C3_NeverRaises == result # "raised"

C6_OrderPreserved ==
    /\ pc \in {"batch", "target", "refine"} =>
           /\ Len(quiz.questions) = Len(generated)
           /\ \A p \in 1..Len(quiz.questions) :
                  quiz.questions[p].isdict => quiz.questions[p].id = p
    /\ result = "quiz" =>
           /\ \A i, j \in 1..Len(quiz.questions) :
                  i < j => quiz.questions[i].id < quiz.questions[j].id
           /\ \A i \in 1..Len(quiz.questions) :
                  quiz.questions[i].id \in 1..Len(generated)

\* C6 at work: the first of two questions was replaced by its refinement and
\* the returned quiz holds the refinement first, the other question second
C6_RefinedInPlace ==
    /\ result = "quiz"
    /\ Len(quiz.questions) = 2
    /\ generated[1].question # Q_mcq2.question
    /\ quiz.questions[1].question = Q_mcq2.question
    /\ quiz.questions[1].id = 1
    /\ quiz.questions[2].id = 2

\* C12: every question of the returned quiz has a type the caller asked
\* for, that is a type with a positive count in question_type_counts.
C12_OnlyRequestedTypes ==
    result = "quiz" =>
        \A i \in 1..Len(quiz.questions) :
            /\ quiz.questions[i].type.t = "str"
            /\ quiz.questions[i].type.s \in RequestedTypes(question_type_counts)

\* C14: the returned quiz never holds two questions whose text is equal
\* after trimming and case folding.
C14_NoTextDuplicates ==
    result = "quiz" =>
        \A i, j \in 1..Len(quiz.questions) :
            i < j => Lower(Strip(PyStr(Get(quiz.questions[i].question))))
                         # Lower(Strip(PyStr(Get(quiz.questions[j].question))))

\* q passes the final normalization and validity check
PassesFinal(q) ==
    LET r == normalize_question(q, AllowedFinal, difficulty)
    IN  r.st = "ok" /\ is_valid_question(r.q)

\* the question generated at position p is in the quiz
InQuiz(questions, p) == \E k \in 1..Len(questions) : questions[k].id = p

\* until the final pass, the question at every exhausted position is the
\* question the generator returned there
ExhaustedKeepsOriginal ==
    \A p \in exhausted : pc # "done" => quiz.questions[p] = generated[p]

StrictlyAscending(idxs) ==
    \A i, j \in 1..Len(idxs) : i < j => idxs[i] < idxs[j]

C29_FeedbackForNextAttempt ==
    /\ [](pc = "refine" => ~feedback.approved /\ feedback.of <= refAttempt)
    /\ [][(pc = "refine" /\ pc' = "refine") =>
              /\ refAttempt' = refAttempt + 1
              /\ calls'.candidate = "valid" =>
                     feedback'.of = refAttempt' /\ ~feedback'.approved
              /\ calls'.candidate # "valid" => feedback' = feedback]_vars

\* C29 at work: the third attempt starts with the critique of the first
\* attempt's candidate, the second attempt gave no valid candidate
C29_SecondAttemptKeptFeedback ==
    /\ pc = "refine"
    /\ refAttempt = 2
    /\ feedback.of = 1
    /\ calls.candidate = "invalid"

\* the step of the run: Generating, BatchCritiquing, TargetedCritiquing with
\* Refining per index, then the final pass and Done
StepRank(p) ==
    CASE p = "gen" -> 0
      [] p = "batch" -> 1
      [] p \in {"target", "refine"} -> 2
      [] OTHER -> 3

\* C32: the steps occur in the order Generating, BatchCritiquing,
\* TargetedCritiquing, Refining, Normalizing, Done: the one batch critique call
\* is made after a generator call gave a parseable quiz; a refine call for an
\* index is made only after the detailed critique of that index came back
\* unapproved; the final pass starts after the last targeted index.
C32_StepOrder ==
    /\ [](calls.batch <= 1)
    /\ [](calls.refine => calls.critic /\ calls.unapproved)
    /\ [](calls.critic => calls.batch = 1)
    /\ [](pc = "refine" => ~feedback.approved /\ ti <= Len(targeted))
    /\ [][/\ StepRank(pc') >= StepRank(pc)
          /\ pc' = "batch" => pc \in {"gen", "batch"}
          /\ calls'.batch # calls.batch =>
                 pc = "batch" /\ genResp = "quiz" /\ quiz.questions # <<>>
          /\ calls'.critic # calls.critic => pc = "target"
          /\ (pc' = "refine" /\ pc # "refine") =>
                 /\ pc = "target" /\ ti' = ti
                 /\ feedback'.of = 0 /\ ~feedback'.approved
          /\ (calls'.refine # calls.refine \/ calls'.candidate # calls.candidate) =>
                 pc = "refine"
          /\ (pc = "target" /\ pc' = "target") => feedback' = NoFeedback
          /\ (result' = "quiz" /\ result # "quiz") =>
                 pc = "target" /\ ti > Len(targeted) /\ pc' = "done"]_vars

\* C32 at work: a run with the batch critique, a detailed critique and a
\* refine call returned a quiz
C32_AllStepsTaken ==
    /\ pc = "done" /\ result = "quiz"
    /\ calls.batch = 1 /\ calls.critic /\ calls.refine
    /\ quiz.questions # <<>>

\* C33: when every model call returns, the run ends, after at most 3
\* generator calls, 1 batch critique and, per targeted index, 1 critique and
\* at most 3 refine calls with their re-critiques: every step moves forward in
\* a bounded count.  A question whose refinement attempts are used up lets the
\* loop go on to the next index, and the final pass runs afterwards.
C33_BoundedRunEnds ==
    /\ <>(pc = "done")
    /\ [](/\ attempt <= MaxAttempts /\ refAttempt <= MaxRefineAttempts
          /\ calls.batch <= 1
          /\ ti <= Len(targeted) + 1
          /\ Len(targeted) <= Len(generated) + 1)
    /\ [][/\ (pc = "gen" /\ pc' = "gen") =>
                 attempt < MaxAttempts /\ attempt' = attempt + 1
          /\ pc = "batch" => pc' \in {"target", "done"}
          /\ (pc = "target" /\ pc' = "target") => ti' = ti + 1
          /\ (pc = "refine" /\ pc' = "refine") =>
                 refAttempt < MaxRefineAttempts /\ refAttempt' = refAttempt + 1
          /\ (pc = "refine" /\ pc' = "target") => ti' = ti + 1
          /\ (pc = "refine" /\ refAttempt >= MaxRefineAttempts /\ result' # "raised") =>
                 /\ pc' = "target" /\ ti' = ti + 1
                 /\ quiz' = quiz
                 /\ exhausted' = exhausted \cup {CurrentPos}]_vars
    /\ []((pc = "done" /\ result # "raised" /\ quiz # NoQuiz) => result = "quiz")

\* C33 at work: the first of two targeted questions used up its attempts,
\* the second was handled and the quiz was returned
C33_ExhaustedThenWentOn ==
    /\ pc = "done" /\ result = "quiz"
    /\ Len(targeted) = 2
    /\ exhausted = {1}
    /\ calls.refine

\* the position p of the list was visited by the for loop before the
\* current index
VisitedBefore(p) ==
    \E k \in 1..Len(targeted) :
        /\ k < ti
        /\ ~IndexRaises(targeted[k], Len(quiz.questions))
        /\ Position(targeted[k], Len(quiz.questions)) = p

----------------------------------------------------------------------------
(* Properties of the job queue (SpecGui) *)

\* C5: at most one GenerationThread is in flight at any time.
C5_OneJobInFlight == Cardinality(threads) <= 1

\* C23: the value the worker hands to the completion handler (which persists
\* it under the questions key and passes it to the exporter) is the quiz's
\* sequence of Question records, not the enclosing quiz object.
C23_HandsQuestionSequence ==
    \A i \in 1..Len(signals) :
        signals[i].kind = "complete" => signals[i].value = "questions"

----------------------------------------------------------------------------
(* Properties of normalize_question (SpecNorm) *)

\* the call returned the normalized question
Normalized == n_pc \in {"returned", "again"} /\ n_out.st = "ok"

\* a and b are the same text up to the case of the letters
SameIgnoringCase(a, b) ==
    /\ Len(a) = Len(b)
    /\ \A i \in 1..Len(a) :
           \/ a[i] = b[i]
           \/ \E k \in 1..Len(LowerChars) :
                  {a[i], b[i]} = {LowerChars[k], UpperChars[k]}

\* s is the text w with white space before and after it
SamePadded(s, w) ==
    \E i \in 1..(Len(s) + 1) :
        /\ i + Len(w) - 1 <= Len(s)
        /\ \A k \in 1..(i - 1) : s[k] \in {" ", "\t", "\n", "\r"}
        /\ SameIgnoringCase(SubSeq(s, i, i + Len(w) - 1), w)
        /\ \A k \in (i + Len(w))..Len(s) : s[k] \in {" ", "\t", "\n", "\r"}

\* C7: after normalize_question a valid MCQ question has exactly 4 options
\* and its answer is one of them.
C7_McqOptionInvariant ==
    (Normalized /\ is_valid_question(n_q) /\ n_out.q.type = Txt(T_MCQ)) =>
        /\ Len(n_out.q.options.items) = 4
        /\ InList(n_out.q.answer, n_out.q.options.items)

\* C8: after normalize_question a True/False question has the options
\* [Correct, Wrong] in that order, and the answer Correct when the raw answer,
\* trimmed, is true, t or correct in any case, Wrong for any other raw answer.
C8_TrueFalseInvariant ==
    (Normalized /\ n_out.q.type = Txt(T_TrueFalse)) =>
        /\ n_out.q.options = Options(<<Txt(S_Correct), Txt(S_Wrong)>>)
        /\ n_out.q.answer =
               IF \E w \in {<<"t", "r", "u", "e">>, <<"t">>,
                            <<"c", "o", "r", "r", "e", "c", "t">>} :
                      SamePadded(PyStr(Get(n_q.answer)), w)
               THEN Txt(S_Correct) ELSE Txt(S_Wrong)

\* C8 at work: the raw answer " TRUE " became Correct
C8_PaddedUpperTrue ==
    /\ Normalized
    /\ n_out.q.type = Txt(T_TrueFalse)
    /\ n_q.answer = Txt(X_true_padded)
    /\ n_out.q.answer = Txt(S_Correct)

C13_NoAnswerDropped ==
    (n_pc \in {"returned", "again"} /\ n_allowed = AllowedFinal
        /\ Get(n_q.answer) = Null) =>
        ~(n_out.st = "ok" /\ KeepQuestion(n_out.q))

\* the canonical type the mapping table of the specification gives a label
TableType(label) ==
    IF \E w \in {L_multiple_choice, L_multiple_dash_choice, L_mcq} :
           SameIgnoringCase(label, w) THEN T_MCQ
    ELSE IF \E w \in {L_true_slash_false, L_true_false, L_tf} :
           SameIgnoringCase(label, w) THEN T_TrueFalse
    ELSE IF \E w \in {L_short, L_short_answer, L_sa} :
           SameIgnoringCase(label, w) THEN T_ShortAnswer
    ELSE IF \E w \in {L_fill, L_fill_in_the_blank, L_fib} :
           SameIgnoringCase(label, w) THEN T_FillInTheBlank
    ELSE IF \E w \in {L_num, L_numerical, L_numeric, L_calculation} :
           SameIgnoringCase(label, w) THEN T_Numerical
    ELSE T_ShortAnswer

\* C10: normalize_question resolves every type label as the mapping table
\* states, comparing case-insensitively; calculation gives Numerical.
C10_TypeTable ==
    (Normalized /\ n_q.type.t = "str") =>
        n_out.q.type = Txt(TableType(n_q.type.s))

\* C28: normalize_question returns a question or none for every object
\* extracted from model output and never raises; a type label that is absent,
\* null or not text resolves to Short Answer, and the type of a returned
\* question is one of the five canonical values.
C28_NeverRaises ==
    n_pc \in {"returned", "again"} =>
        /\ n_out.st \in {"ok", "none"}
        /\ (n_out.st = "ok" /\ (n_q.type = Absent \/ n_q.type.t # "str")) =>
               n_out.q.type = Txt(T_ShortAnswer)
        /\ n_out.st = "ok" =>
               \E ty \in CanonicalTypes : n_out.q.type = Txt(ty)

\* what holds of the calls that return: the type is canonical, and an
\* absent label gives Short Answer
NormalizedTypeCanonical ==
    (n_pc \in {"returned", "again"} /\ n_out.st = "ok") =>
        /\ \E ty \in CanonicalTypes : n_out.q.type = Txt(ty)
        /\ n_q.type = Absent => n_out.q.type = Txt(T_ShortAnswer)

----------------------------------------------------------------------------
(* Properties of normalize_question and of the pipeline (Spec) *)

\* C9: with a target difficulty D, normalize_question sets the difficulty of
\* the question to D whatever the question carried and whatever the estimator
\* says; every question of a returned quiz carries the difficulty the caller
\* asked for.
C9_DifficultyOverride ==
    /\ (Normalized /\ Truthy(n_gui)) => n_out.q.difficulty = n_gui
    /\ result = "quiz" =>
           \A i \in 1..Len(quiz.questions) :
               quiz.questions[i].difficulty = difficulty

\* C9 at work: the returned quiz holds a refined question and an original
\* one, the model had given the original another difficulty, and the
\* estimator disagrees with the caller on one of them
C9_OverriddenInQuiz ==
    /\ result = "quiz"
    /\ Len(quiz.questions) = 2
    /\ quiz.questions[1].question = Q_mcq2.question
    /\ generated[1].question # Q_mcq2.question
    /\ generated[2].difficulty \notin {Absent, difficulty}
    /\ \E i \in 1..2 :
           analyze_question_difficulty(quiz.questions[i]) # difficulty.s

\* a well-formed question object of a type the caller asked for: a text, a
\* type label of a requested type, an answer, and for MCQ four options one of
\* which is the answer
WellFormedRequested(q) ==
    /\ q.isdict
    /\ q.question.t = "str" /\ Strip(q.question.s) # <<>>
    /\ q.type.t = "str"
    /\ TableType(q.type.s) \in RequestedTypes(question_type_counts)
    /\ q.answer.t = "str" /\ Strip(q.answer.s) # <<>>
    /\ TableType(q.type.s) = T_MCQ =>
           /\ q.options.t = "list"
           /\ Len(q.options.items) = 4
           /\ \E i \in 1..4 : q.options.items[i] = q.answer

\* the generator returned num_questions well-formed questions of requested
\* types and every detailed critique approved
AllWellFormedAllApproved ==
    /\ pc = "done"
    /\ result = "quiz"
    /\ Len(generated) = num_questions
    /\ \A i \in 1..Len(generated) : WellFormedRequested(generated[i])
    /\ ~calls.unapproved

\* C22: if the generator returns N = num_questions well-formed questions of a
\* requested type and the critic approves every question it is asked about,
\* the returned quiz holds exactly those N questions in generation order, each
\* with the requested difficulty and, for MCQ, exactly 4 options, and no
\* refinement call was made.
C22_HappyPath ==
    AllWellFormedAllApproved =>
        /\ Len(quiz.questions) = num_questions
        /\ \A i \in 1..Len(quiz.questions) :
               /\ quiz.questions[i].id = i
               /\ quiz.questions[i].question = generated[i].question
               /\ quiz.questions[i].type = Txt(TableType(generated[i].type.s))
               /\ quiz.questions[i].difficulty = difficulty
               /\ quiz.questions[i].type = Txt(T_MCQ) =>
                      /\ Len(quiz.questions[i].options.items) = 4
                      /\ quiz.questions[i].options = generated[i].options
                      /\ quiz.questions[i].answer = generated[i].answer
        /\ ~calls.refine

\* two well-formed questions were asked for and generated, the critic was
\* asked about one of them at least and approved, and both were returned
C22_TwoApprovedReturned ==
    /\ AllWellFormedAllApproved
    /\ num_questions = 2
    /\ calls.critic
    /\ Len(quiz.questions) = 2
    /\ generated[2].difficulty # difficulty

----------------------------------------------------------------------------
(* Properties of deduplicate_questions, critique_questions and
   batch_critique (SpecCall) *)

Returned(fn) == h_pc = "returned" /\ h_fn = fn

\* the text of a question after trimming and lower-casing
TextKey(q) ==
    Lower(Strip(IF q.question = Absent THEN <<>> ELSE PyStr(q.question)))

\* questions[i] is the first question of the list with its text
FirstWithText(questions, i) ==
    \A j \in 1..(i - 1) : TextKey(questions[j]) # TextKey(questions[i])

\* questions[i] is one of the entries of kept
KeptIn(kept, questions, i) ==
    \E k \in 1..Len(kept) : kept[k] = questions[i]

\* the entries of kept are in the order they had in the list they come from
InInputOrder(kept) ==
    \A a, b \in 1..Len(kept) : a < b => kept[a].id < kept[b].id

\* C15 as stated: deduplicate_questions keeps, for every question text after
\* trimming and lower-casing, exactly the first question with that text, drops
\* the later ones, and preserves the relative order of the kept questions.
C15_FirstOfEveryTextKept ==
    (Returned("deduplicate_questions") /\ h_out.st = "ok") =>
        /\ \A i \in 1..Len(h_questions) :
               KeptIn(h_out.qs, h_questions, i) <=> FirstWithText(h_questions, i)
        /\ InInputOrder(h_out.qs)

\* C15, amended: deduplicate_questions keeps, for every non-empty question
\* text after trimming and lower-casing, exactly the first question with that
\* text, drops the later ones and every question whose text is empty after
\* trimming, and preserves the relative order of the kept questions.
C15_FirstOfEveryNonEmptyTextKept ==
    (Returned("deduplicate_questions") /\ h_out.st = "ok") =>
        /\ \A i \in 1..Len(h_questions) :
               KeptIn(h_out.qs, h_questions, i) <=>
                   (TextKey(h_questions[i]) # <<>> /\ FirstWithText(h_questions, i))
        /\ InInputOrder(h_out.qs)

\* two questions whose text differs only in case and surrounding whitespace,
\* and a blank one, have left exactly the first
C15_CaseAndPaddingCollapsed ==
    /\ Returned("deduplicate_questions")
    /\ h_out.st = "ok"
    /\ Len(h_questions) = 3
    /\ h_questions[1].question = Txt(S_true)
    /\ h_questions[2].question = Txt(X_true_padded)
    /\ h_questions[3].question = Txt(<<" ">>)
    /\ h_out.qs = <<h_questions[1]>>

\* the difficulty estimated for questions[i] is not the one the caller asked for
DifficultyMismatch(questions, i) ==
    analyze_question_difficulty(questions[i]) # h_difficulty.s

\* C16: whenever critique_questions critiques a question whose estimated
\* difficulty differs from the requested one, the feedback returned for it has
\* approved = false and a difficulty-mismatch issue, whatever the model answered.
C16_MismatchForcesUnapproved ==
    Returned("critique_questions") =>
        \A i \in 1..Len(h_questions) :
            DifficultyMismatch(h_questions, i) =>
                /\ i <= Len(h_out)
                /\ ~Feedback(h_out[i], 0).approved
                /\ Feedback(h_out[i], 0).issues = "difficulty mismatch"

\* C17: when the critic's output for batch_critique is no object with a
\* flagged list, batch_critique returns a result that flags no index, and the
\* pipeline goes on to targeted critique instead of stopping.
C17_MalformedBatchFlagsNothing ==
    (Returned("batch_critique") /\ h_resp.kind # "list") =>
        /\ h_out.kind = "list"
        /\ h_out.ints = {}
        /\ ~BatchRaises(h_out)

\* a call of critique_questions, of either module, has returned
CritiqueReturned ==
    \/ Returned("critique_questions")
    \/ Returned("question_evaluator.critique_questions")

\* the critic's output is malformed, empty, or a list shorter or longer than
\* the input
MalformedCritique ==
    h_resp.kind # "list" \/ Len(h_resp.items) # Len(h_questions)

\* C18: when the critic's output for critique_questions is malformed, empty or
\* a list shorter or longer than the input, critique_questions returns for
\* every input question a record with approved = false and the issue
\* "Critique failed"; it never approves unreviewed questions.
C18_MalformedCritiqueUnapproved ==
    (CritiqueReturned /\ MalformedCritique) =>
        /\ Len(h_out) = Len(h_questions)
        /\ \A i \in 1..Len(h_out) :
               /\ ~Feedback(h_out[i], 0).approved
               /\ Feedback(h_out[i], 0).issues = "Critique failed"

\* the same for critique_questions of ai_pipeline.py alone
AiPipelineMalformedCritiqueUnapproved ==
    (Returned("critique_questions") /\ MalformedCritique) =>
        /\ Len(h_out) = Len(h_questions)
        /\ \A i \in 1..Len(h_out) : Feedback(h_out[i], 0) = Feedback("failed", 0)

\* the feedback record is an object with a boolean approved field
HasBooleanApproved(e) == e \in {"approved", "rejected", "failed"}

\* C19: for every non-empty list of questions and every critic response,
\* critique_questions returns exactly one feedback record per input question,
\* and each record is an object with a boolean approved field (a missing or
\* malformed record of the model is replaced by a default).
C19_OneWellFormedRecordEach ==
    (CritiqueReturned /\ h_questions # <<>>) =>
        /\ Len(h_out) = Len(h_questions)
        /\ \A i \in 1..Len(h_out) : HasBooleanApproved(h_out[i])

----------------------------------------------------------------------------
(* Properties of the inference client and of the pure functions (SpecFn) *)

FnReturned(fn) == f_pc = "returned" /\ f_fn = fn

\* a call of the inference client, of either module, has returned
RunOllamaReturned ==
    FnReturned("run_ollama") \/ FnReturned("question_evaluator.run_ollama")

\* C24: run_ollama never raises to its caller: for every outcome of the
\* network call it returns a text or an empty or absent result.
C24_ClientNeverRaises ==
    RunOllamaReturned => f_out.st \in {"text", "empty", "none"}

\* the requests of the returned call that went to model m
SentTo(m) == {i \in 1..Len(f_out.sent) : f_out.sent[i] = m}

\* request i of the returned call got a response text
Succeeded(i) == i <= Len(f_arg.answers) /\ f_arg.answers[i] = "ok"

\* C25: one call of run_ollama sends at most 2 requests with the requested
\* model and returns the text of the first request that succeeds; when both
\* fail, and only then, and only if the requested model is not the fallback, it
\* sends exactly one further request, to the fallback model; it sends at most
\* 3 requests and returns absent when every request failed.
C25_RetryThenFallback ==
    RunOllamaReturned =>
        /\ Cardinality(SentTo(f_arg.model)) <= 2
        /\ Len(f_out.sent) <= 3
        /\ \A i \in 1..Len(f_out.sent) :
               f_out.sent[i] \in {f_arg.model, FallbackModel}
        /\ f_out.st = "text" =>
               /\ f_out.text = Len(f_out.sent)
               /\ Succeeded(f_out.text)
               /\ \A j \in 1..(f_out.text - 1) : ~Succeeded(j)
        /\ (\E i \in 1..Len(f_out.sent) : Succeeded(i)) => f_out.st = "text"
        /\ f_arg.model # FallbackModel =>
               (3 \in SentTo(FallbackModel) <=> (~Succeeded(1) /\ ~Succeeded(2)))
        /\ (\A i \in 1..Len(f_out.sent) : ~Succeeded(i)) =>
               f_out.st \in {"none", "empty"}

\* the same for the calls of question_evaluator.run_ollama in which no
\* request is answered by a body that makes the call raise
EvaluatorRetryThenFallback ==
    (FnReturned("question_evaluator.run_ollama") /\ f_out.st # "raise")
        => C25_RetryThenFallback

\* --- extract_json ---

ExtractJsonReturned ==
    f_pc = "returned" /\ f_fn \in {"extract_json", "question_generator.extract_json"}

\* the repair heuristic as specified: single quotes become double quotes and
\* None becomes null
RepairedAsSpecified(candidate) ==
    Replace(Replace(candidate, <<SQ>>, <<DQ>>), S_None, S_null)

\* the text needs the repair: it has no fence, neither the text nor its
\* bracket substring parses
NeedsRepair(raw) ==
    /\ raw.t = "str"
    /\ ~StartsWith(Strip(raw.s), S_fence)
    /\ ~json_loads(Strip(raw.s)).ok
    /\ RegexCandidate(Strip(raw.s)) # <<>>
    /\ ~json_loads(RegexCandidate(Strip(raw.s))).ok

ObjectA1BNull ==
    Dict(<<[key |-> <<"a">>, value |-> Num(1)], [key |-> <<"b">>, value |-> Null]>>)

\* C26: when direct parsing and bracket-substring parsing both fail,
\* extract_json returns what the repaired text (single quotes to double
\* quotes, None to null) parses to, so {'a': 1, 'b': None} yields the object
\* with a = 1 and b = null; a text that parses in no way yields none
C26_RepairQuotesAndNone ==
    ExtractJsonReturned /\ NeedsRepair(f_arg.raw_text) =>
        LET repaired == json_loads(RepairedAsSpecified(RegexCandidate(Strip(f_arg.raw_text.s))))
        IN  /\ f_out = (IF repaired.ok THEN Extracted(repaired.v) ELSE ExtractNone)
            /\ f_arg.raw_text = Txt(X_obj_sq_None) => f_out = Extracted(ObjectA1BNull)

\* question_generator.extract_json repairs as specified
GeneratorRepairQuotesAndNone ==
    f_fn = "question_generator.extract_json" => C26_RepairQuotesAndNone

\* the repair of single quotes alone works in both
C26_SingleQuotesRepaired ==
    /\ ExtractJsonReturned
    /\ f_arg.raw_text = Txt(X_sure \o X_obj_sq)
    /\ f_out = Extracted(Dict(<<[key |-> <<"a">>, value |-> Num(1)]>>))

\* --- analyze_question_difficulty ---

DifficultyReturned == f_pc = "returned" /\ f_fn = "analyze_question_difficulty"

\* the largest number of the question text and the answer text, by what the
\* texts were built from
LargestNumber(a) ==
    LET inText == IF a.num < 0 THEN 0 ELSE a.num
        ans == a.question.answer
        inAnswer == IF ans = Txt(<<"7">>) THEN 7
                    ELSE IF ans = Num(150) THEN 150
                    ELSE IF ans \in {Absent, Null} THEN 0
                    ELSE 2500
    IN  IF inText >= inAnswer THEN inText ELSE inAnswer

\* the step count, by what the text was built from
StepCount(a) == IF a.cue = <<>> THEN 1 ELSE 1 + a.ands + a.commas

ClassByRules(m, s) ==
    IF m < 20 /\ s <= 1 THEN S_Easy
    ELSE IF m < 100 /\ s <= 2 THEN S_Medium
    ELSE IF m < 1000 /\ s > 2 THEN S_Hard
    ELSE S_Medium

\* C27: for a question with a text, analyze_question_difficulty returns the
\* class the four rules give for the largest number m of question and answer
\* text and the step count s; m >= 1000 gives Medium, and without an
\* arithmetic cue the " and " and the commas do not count
C27_ClassByRules ==
    DifficultyReturned /\ f_arg.question.question.t = "str" =>
        /\ f_out = Extracted(ClassByRules(LargestNumber(f_arg), StepCount(f_arg)))
        /\ LargestNumber(f_arg) >= 1000 => f_out.v = S_Medium
        /\ f_arg.cue = <<>> =>
               f_out.v = ClassByRules(LargestNumber(f_arg), 1)

\* a large number with three steps is Medium, not Hard
C27_LargeManySteps ==
    /\ DifficultyReturned
    /\ f_arg.num = 1000 /\ f_arg.cue = S_Total /\ f_arg.ands = 2
    /\ f_out = Extracted(S_Medium)

\* --- refine_question ---

RefineReturned == f_pc = "returned" /\ f_fn = "refine_question"

\* the initial-generation path accepts the candidate: normalize_question with
\* the target type and the target difficulty, then is_valid_question
InitialPathAccepts(parsed, qtype, diff) ==
    /\ normalize_question(parsed, {qtype}, diff).st = "ok"
    /\ is_valid_question(normalize_question(parsed, {qtype}, diff).q)

\* C30: refine_question returns a question exactly when normalizing the
\* candidate for the target type and difficulty and then applying
\* is_valid_question succeeds; a True/False candidate with the answer "true"
\* is treated the same on both paths.
C30_RefineAcceptsAsInitialPath ==
    RefineReturned =>
        (f_out.st = "ok"
            <=> InitialPathAccepts(f_arg.parsed, f_arg.qtype, f_arg.difficulty))

\* what holds: a candidate refine_question returns is one the initial path
\* accepts
RefineAcceptedIsAccepted ==
    (RefineReturned /\ f_out.st = "ok") =>
        InitialPathAccepts(f_arg.parsed, f_arg.qtype, f_arg.difficulty)

\* the True/False candidate with the answer "true": rejected by
\* refine_question, accepted by the initial path
TrueAnswerTreatedDifferently ==
    /\ RefineReturned
    /\ f_arg.parsed = Q_tf /\ f_arg.qtype = Txt(T_TrueFalse)
    /\ f_out.st = "none"
    /\ InitialPathAccepts(f_arg.parsed, f_arg.qtype, f_arg.difficulty)

----------------------------------------------------------------------------
(* Properties of the choice and the visit of the targeted indices (Spec) *)

TargetsChosen == f_pc = "returned" /\ f_fn = "targeted_indices" /\ f_out.st = "ok"

\* min(max(5, floor(0.2 * n)), 10)
SpecifiedSampleSize(n) ==
    LET fifth == n \div 5
        atLeast5 == IF fifth > 5 THEN fifth ELSE 5
    IN  IF atLeast5 < 10 THEN atLeast5 ELSE 10

ElementsOf(seq) == {seq[i] : i \in 1..Len(seq)}

\* C31: the targeted indices are the flagged indices and a sample of the
\* unflagged indices of 0..n-1, the sample having
\* min(number of unflagged indices, min(max(5, floor(0.2 * n)), 10)) elements;
\* they are visited in ascending order, each one once: the loop only moves
\* forward, and the final pass starts after the last one.
C31_FlaggedPlusSample ==
    /\ [](TargetsChosen =>
            LET T == ElementsOf(f_out.targeted)
                F == f_arg.flagged.ints
                U == (0..(f_arg.n - 1)) \ F
            IN  /\ F \subseteq T
                /\ (T \ F) \subseteq U
                /\ Cardinality(T \ F) =
                       (IF Cardinality(U) < SpecifiedSampleSize(f_arg.n)
                        THEN Cardinality(U) ELSE SpecifiedSampleSize(f_arg.n))
                /\ StrictlyAscending(f_out.targeted))
    /\ [](pc \in {"target", "refine"} =>
            /\ StrictlyAscending(targeted)
            /\ (0..(Len(quiz.questions) - 1)) \subseteq ElementsOf(targeted)
            /\ ti >= 1)
    /\ [][/\ (pc = "target" /\ pc' = "target") => ti' = ti + 1 /\ ti <= Len(targeted)
          /\ (pc = "target" /\ pc' = "refine") => ti' = ti /\ ti <= Len(targeted)
          /\ (pc = "refine" /\ pc' = "refine") => ti' = ti
          /\ (pc = "refine" /\ pc' = "target") => ti' = ti + 1
          /\ (pc \in {"target", "refine"} /\ pc' \in {"target", "refine"}) =>
                 targeted' = targeted
          /\ (pc \in {"target", "refine"} /\ result' = "quiz") =>
                 pc = "target" /\ ti = Len(targeted) + 1]_vars

\* C31 at work: of 60 questions the 30 even ones are flagged and 10 of the
\* 30 others are sampled
C31_TenOfThirtySampled ==
    /\ TargetsChosen
    /\ f_arg.n = 60
    /\ Len(f_out.targeted) = 40

\* the call as the pipeline makes it: qtype is q_obj.get("type")
CalledAsByPipeline == f_arg.qtype = Get(f_arg.question.type)

\* the canonical type that corresponds to the type label of the original
CorrespondingType(qtype) ==
    IF qtype.t = "str" THEN Txt(TableType(qtype.s)) ELSE Txt(T_ShortAnswer)

\* C35: whatever type label the original question has (a recognized synonym,
\* or none), refine_question accepts a well-formed valid candidate of the
\* corresponding canonical type.
C35_RefinesWhateverLabel ==
    (/\ RefineReturned
     /\ CalledAsByPipeline
     /\ is_valid_question(f_arg.parsed)
     /\ f_arg.parsed.type = CorrespondingType(f_arg.qtype)) =>
        f_out.st = "ok"

\* what holds: the candidate is accepted when the label of the original is
\* the canonical name itself
CanonicalLabelRefined ==
    (/\ RefineReturned
     /\ \E ty \in CanonicalTypes : f_arg.qtype = Txt(ty)
     /\ is_valid_question(f_arg.parsed)
     /\ f_arg.parsed.type = f_arg.qtype) =>
        f_out.st = "ok"

\* ... and never when the label is a synonym or missing
SynonymLabelNeverRefined ==
    (/\ RefineReturned
     /\ ~\E ty \in CanonicalTypes : f_arg.qtype = Txt(ty)) =>
        f_out.st # "ok"

\* in a run of the pipeline (SpecPipe) the same shows as: an original whose
\* type label is not a canonical name is never replaced
SynonymOriginalsNeverReplaced ==
    (pc \in {"target", "refine"} /\ quiz # NoQuiz) =>
        \A p \in 1..Len(quiz.questions) :
            (~\E ty \in CanonicalTypes : generated[p].type = Txt(ty)) =>
                quiz.questions[p] = generated[p]

\* the call of the failing input: the original labelled "tf", the candidate a
\* valid True/False question
TfOriginalRejected ==
    /\ RefineReturned
    /\ f_arg.question = Q_tf /\ f_arg.parsed = Q_tf_Correct
    /\ f_arg.qtype = Txt(L_tf)
    /\ f_out.st = "none"

----------------------------------------------------------------------------
(* Properties of the task removed from the queue (SpecGui) *)

\* a handler removes the first task of the queue
TaskRemoved == task_queue # <<>> /\ task_queue' = Tail(task_queue)

\* a GenerationThread is created and started for task
JobStartedFor(task) ==
    \E th \in threads' \ threads : th.task = task

\* a job of task is running, or has ended with its signal not yet handled
JobInFlight(task) ==
    \/ \E th \in threads : th.task = task
    \/ \E i \in 1..Len(signals) : signals[i].task = task

\* C36: the task removed when a signal arrives is the task whose job just
\* finished, no task is removed while a job of it is running, and no task is
\* started a second time.
C36_RemovedTaskIsFinishedTask ==
    /\ [][TaskRemoved =>
            /\ Head(signals).task = Head(task_queue)
            /\ ~\E th \in threads : th.task = Head(task_queue)]_vars
    /\ [][\A task \in 1..MaxTasks :
            JobStartedFor(task) => ~JobInFlight(task)]_vars

\* the removed first task is task 2, whose job is running, on the signal of a
\* job of task 1
RunningTaskRemoved ==
    /\ signals # <<>> /\ Head(signals).task = 1
    /\ task_queue # <<>> /\ Head(task_queue) = 2
    /\ \E th \in threads : th.task = 2

\* task is waiting in the queue
InQueue(task) == \E i \in 1..Len(task_queue) : task_queue[i] = task

\* task has been started: a job of it runs or has ended, or the task has
\* left the queue
TaskStarted(task) == JobInFlight(task) \/ ~InQueue(task)

\* C37: once queue processing has been started, every task in the queue is
\* eventually started without further user action, also after the job of an
\* earlier task ended in an error (as far as MaxThreads jobs go).
C37_EveryQueuedTaskStarted ==
    \A task \in 1..MaxTasks :
        (InQueue(task) /\ queueStatus = "Processing...")
            ~> (TaskStarted(task) \/ nextThread = MaxThreads)

\* the queue after the job of task 1 ended in an error: task 2 waits, no job
\* runs, no signal is pending, and only the user can go on
StalledAfterError ==
    /\ task_queue = <<2>> /\ threads = {} /\ signals = <<>>
    /\ queueStatus = "Idle" /\ current_thread = 0 /\ ~crashed
    /\ nextThread = 1

\* what holds: after a job that ended with generation_complete the next
\* queued task is started by the handler itself
NextStartedAfterCompletion ==
    [][(OnGenerationComplete /\ Len(task_queue) > 1) =>
            JobStartedFor(task_queue[2])]_vars

----------------------------------------------------------------------------
(* Properties of a run in which no critic output parses (SpecPipeLive) *)

\* every critic call so far fell back: batch_critique to no flagged index,
\* critique_questions to "Critique failed"
EveryCritiqueFailed == ~calls.parsed

\* the generator's original questions after the final normalization pass,
\* truncated to num_questions
OriginalsAfterFinalPass ==
    Truncate(FinalLoop(generated, 1, difficulty, <<>>).qs, num_questions)

\* C38: a run in which every critic call fails to give parseable output still
\* ends, replaces no question, and returns the generator's original
\* questions after the final pass, in generation order.
C38_CriticNeverParses ==
    /\ <>(pc = "done" \/ ~EveryCritiqueFailed)
    /\ []((EveryCritiqueFailed /\ pc \in {"batch", "target", "refine"}) =>
            quiz.questions = generated)
    /\ []((EveryCritiqueFailed /\ result = "quiz") =>
            quiz.questions = OriginalsAfterFinalPass)

\* a run returned a quiz after a batch critique, critiques and a valid
\* refined candidate, with no critic output that parsed
C38_ReturnedWithFailedCritic ==
    /\ pc = "done" /\ result = "quiz"
    /\ EveryCritiqueFailed
    /\ calls.batch = 1 /\ calls.critic /\ calls.refine
    /\ calls.candidate = "valid"
    /\ Len(quiz.questions) = MaxQ

====
